---- MODULE Spec2Model ----
(***************************************************************************)
(* A model of the primesieve library: the segment codec (segment.rs), the  *)
(* mod-30 wheel (wheel.rs), the decoder (iterator.rs), the segmented sieve *)
(* (segsieve.rs) and the Sieve facade with its queries (sieve/mod.rs,      *)
(* sieve/primefuncs.rs).                                                   *)
(*                                                                         *)
(* A u64 word is modelled as the set of its set bit positions, a subset of *)
(* 0..63: `!0` is 0..63, `w & !(1 << b)` is w \ {b}, count_ones is         *)
(* Cardinality and trailing_zeros is the least element.  The value 1 << b  *)
(* is written as the bit position b.                                       *)
(***************************************************************************)
EXTENDS Integers, Sequences, FiniteSets, TLC

(***************************************************************************)
(* Bounds of the model.                                                    *)
(***************************************************************************)
\* Largest limit handed to Sieve::to_limit.
MaxLimit == 500
\* Largest n handed to Sieve::to_n_primes.
MaxN == 100
\* Largest segment length in words.  The crate fixes SEGMENT_LEN = 32768
\* (segsieve.rs:11); the model draws it from 1..MaxSegmentLen so that small
\* limits span several segments.
MaxSegmentLen == 2
\* Half-width of the windows of query arguments around limit() and limit()^2.
QSpan == 6

(***************************************************************************)
(* The state.                                                              *)
(***************************************************************************)
VARIABLES
    ctor,               \* the constructor called: "to_limit" or "to_n_primes"
    arg,                \* its argument
    SEGMENT_LEN,        \* the segment length in words
    pc,                 \* where the constructor stands
    limit,              \* segmented_sieve: the parameter limit
    lim,                \* segmented_sieve: lim
    sieve,              \* small_primes: the buffer being sieved
    iter,               \* small_primes: the decoder over that buffer
    small_primes,       \* segmented_sieve: the buffer small_primes returned
    small_primes_iter,  \* segmented_sieve: the decoder over it
    segment,            \* segmented_sieve: the scratch segment
    segments,           \* segmented_sieve: the result so far
    next_indices,       \* segmented_sieve: the (index, wheel) pairs
    low,                \* segmented_sieve: low
    j,                  \* segmented_sieve: position of the for loop in next_indices
    primes,             \* Sieve.primes
    counts,             \* Sieve.counts
    cursor,             \* a sieve::SieveIterator a caller holds, or NoCursor
    yielded,            \* the values that iterator has returned
    exhausted,          \* that iterator has returned None
    q                   \* the last query: [op, arg, res]

vars == <<ctor, arg, SEGMENT_LEN, pc, limit, lim, sieve, iter, small_primes,
          small_primes_iter, segment, segments, next_indices, low, j, primes,
          counts, cursor, yielded, exhausted, q>>

build_vars == <<limit, lim, sieve, iter, small_primes, small_primes_iter, segment,
                segments, next_indices, low, j>>

(***************************************************************************)
(* Program constants.                                                      *)
(***************************************************************************)
MODULUS == 240
NUM_DIFFS == 8
\* The modulus of the wheel: `mult % 30` in Wheel30::new.
WHEEL_MOD == 30
\* The number of bits of a u64 word.
WORD_BITS == 64

\* !0 : u64
ALL_ONES == 0..(WORD_BITS - 1)

Min(S) == CHOOSE x \in S : \A y \in S : x <= y

\* floor(sqrt(n)), the value of `(n as f64).sqrt() as u64` (exact below 2^52).
Isqrt(n) == CHOOSE r \in 0..n : r * r <= n /\ (r + 1) * (r + 1) > n

(***************************************************************************)
(* segment.rs: the codec.                                                  *)
(***************************************************************************)
\* The table POS of index_for, entry by entry: <<representable, bit>> for
\* each residue 0..239 (the mask 1 << bit is kept as the bit position).
POS ==
    <<
       <<FALSE, 0>>, <<TRUE, 0>>, <<FALSE, 1>>, <<FALSE, 1>>, <<FALSE, 1>>, <<FALSE, 1>>,
       <<FALSE, 1>>, <<TRUE, 1>>, <<FALSE, 2>>, <<FALSE, 2>>, <<FALSE, 2>>, <<TRUE, 2>>,
       <<FALSE, 3>>, <<TRUE, 3>>, <<FALSE, 4>>, <<FALSE, 4>>, <<FALSE, 4>>, <<TRUE, 4>>,
       <<FALSE, 5>>, <<TRUE, 5>>, <<FALSE, 6>>, <<FALSE, 6>>, <<FALSE, 6>>, <<TRUE, 6>>,
       <<FALSE, 7>>, <<FALSE, 7>>, <<FALSE, 7>>, <<FALSE, 7>>, <<FALSE, 7>>, <<TRUE, 7>>,
       <<FALSE, 8>>, <<TRUE, 8>>, <<FALSE, 9>>, <<FALSE, 9>>, <<FALSE, 9>>, <<FALSE, 9>>,
       <<FALSE, 9>>, <<TRUE, 9>>, <<FALSE, 10>>, <<FALSE, 10>>, <<FALSE, 10>>, <<TRUE, 10>>,
       <<FALSE, 11>>, <<TRUE, 11>>, <<FALSE, 12>>, <<FALSE, 12>>, <<FALSE, 12>>, <<TRUE, 12>>,
       <<FALSE, 13>>, <<TRUE, 13>>, <<FALSE, 14>>, <<FALSE, 14>>, <<FALSE, 14>>, <<TRUE, 14>>,
       <<FALSE, 15>>, <<FALSE, 15>>, <<FALSE, 15>>, <<FALSE, 15>>, <<FALSE, 15>>, <<TRUE, 15>>,
       <<FALSE, 16>>, <<TRUE, 16>>, <<FALSE, 17>>, <<FALSE, 17>>, <<FALSE, 17>>, <<FALSE, 17>>,
       <<FALSE, 17>>, <<TRUE, 17>>, <<FALSE, 18>>, <<FALSE, 18>>, <<FALSE, 18>>, <<TRUE, 18>>,
       <<FALSE, 19>>, <<TRUE, 19>>, <<FALSE, 20>>, <<FALSE, 20>>, <<FALSE, 20>>, <<TRUE, 20>>,
       <<FALSE, 21>>, <<TRUE, 21>>, <<FALSE, 22>>, <<FALSE, 22>>, <<FALSE, 22>>, <<TRUE, 22>>,
       <<FALSE, 23>>, <<FALSE, 23>>, <<FALSE, 23>>, <<FALSE, 23>>, <<FALSE, 23>>, <<TRUE, 23>>,
       <<FALSE, 24>>, <<TRUE, 24>>, <<FALSE, 25>>, <<FALSE, 25>>, <<FALSE, 25>>, <<FALSE, 25>>,
       <<FALSE, 25>>, <<TRUE, 25>>, <<FALSE, 26>>, <<FALSE, 26>>, <<FALSE, 26>>, <<TRUE, 26>>,
       <<FALSE, 27>>, <<TRUE, 27>>, <<FALSE, 28>>, <<FALSE, 28>>, <<FALSE, 28>>, <<TRUE, 28>>,
       <<FALSE, 29>>, <<TRUE, 29>>, <<FALSE, 30>>, <<FALSE, 30>>, <<FALSE, 30>>, <<TRUE, 30>>,
       <<FALSE, 31>>, <<FALSE, 31>>, <<FALSE, 31>>, <<FALSE, 31>>, <<FALSE, 31>>, <<TRUE, 31>>,
       <<FALSE, 32>>, <<TRUE, 32>>, <<FALSE, 33>>, <<FALSE, 33>>, <<FALSE, 33>>, <<FALSE, 33>>,
       <<FALSE, 33>>, <<TRUE, 33>>, <<FALSE, 34>>, <<FALSE, 34>>, <<FALSE, 34>>, <<TRUE, 34>>,
       <<FALSE, 35>>, <<TRUE, 35>>, <<FALSE, 36>>, <<FALSE, 36>>, <<FALSE, 36>>, <<TRUE, 36>>,
       <<FALSE, 37>>, <<TRUE, 37>>, <<FALSE, 38>>, <<FALSE, 38>>, <<FALSE, 38>>, <<TRUE, 38>>,
       <<FALSE, 39>>, <<FALSE, 39>>, <<FALSE, 39>>, <<FALSE, 39>>, <<FALSE, 39>>, <<TRUE, 39>>,
       <<FALSE, 40>>, <<TRUE, 40>>, <<FALSE, 41>>, <<FALSE, 41>>, <<FALSE, 41>>, <<FALSE, 41>>,
       <<FALSE, 41>>, <<TRUE, 41>>, <<FALSE, 42>>, <<FALSE, 42>>, <<FALSE, 42>>, <<TRUE, 42>>,
       <<FALSE, 43>>, <<TRUE, 43>>, <<FALSE, 44>>, <<FALSE, 44>>, <<FALSE, 44>>, <<TRUE, 44>>,
       <<FALSE, 45>>, <<TRUE, 45>>, <<FALSE, 46>>, <<FALSE, 46>>, <<FALSE, 46>>, <<TRUE, 46>>,
       <<FALSE, 47>>, <<FALSE, 47>>, <<FALSE, 47>>, <<FALSE, 47>>, <<FALSE, 47>>, <<TRUE, 47>>,
       <<FALSE, 48>>, <<TRUE, 48>>, <<FALSE, 49>>, <<FALSE, 49>>, <<FALSE, 49>>, <<FALSE, 49>>,
       <<FALSE, 49>>, <<TRUE, 49>>, <<FALSE, 50>>, <<FALSE, 50>>, <<FALSE, 50>>, <<TRUE, 50>>,
       <<FALSE, 51>>, <<TRUE, 51>>, <<FALSE, 52>>, <<FALSE, 52>>, <<FALSE, 52>>, <<TRUE, 52>>,
       <<FALSE, 53>>, <<TRUE, 53>>, <<FALSE, 54>>, <<FALSE, 54>>, <<FALSE, 54>>, <<TRUE, 54>>,
       <<FALSE, 55>>, <<FALSE, 55>>, <<FALSE, 55>>, <<FALSE, 55>>, <<FALSE, 55>>, <<TRUE, 55>>,
       <<FALSE, 56>>, <<TRUE, 56>>, <<FALSE, 57>>, <<FALSE, 57>>, <<FALSE, 57>>, <<FALSE, 57>>,
       <<FALSE, 57>>, <<TRUE, 57>>, <<FALSE, 58>>, <<FALSE, 58>>, <<FALSE, 58>>, <<TRUE, 58>>,
       <<FALSE, 59>>, <<TRUE, 59>>, <<FALSE, 60>>, <<FALSE, 60>>, <<FALSE, 60>>, <<TRUE, 60>>,
       <<FALSE, 61>>, <<TRUE, 61>>, <<FALSE, 62>>, <<FALSE, 62>>, <<FALSE, 62>>, <<TRUE, 62>>,
       <<FALSE, 63>>, <<FALSE, 63>>, <<FALSE, 63>>, <<FALSE, 63>>, <<FALSE, 63>>, <<TRUE, 63>>
    >>

\* index_for(idx) -> (representable, word index, bit)
index_for(idx) ==
    LET byte == idx \div MODULUS
        byte_idx == POS[(idx % MODULUS) + 1]
    IN  <<byte_idx[1], byte, byte_idx[2]>>

\* segment[x] exists: a Rust slice index that would otherwise panic.
InBounds(seg, x) == x >= 0 /\ x < Len(seg)

\* get reading the bit whatever the flag of the residue says.
get_ignores_flag(seg, idx) ==
    LET r == index_for(idx)
    IN  r[3] \in seg[r[2] + 1]

\* get(segment, idx): words are 0-indexed in the code, 1-indexed here.
get(seg, idx) ==
    LET r == index_for(idx)
    IN  IF ~r[1] THEN FALSE ELSE r[3] \in seg[r[2] + 1]

\* set_off clearing the whole word: segment[x] = 0.
set_off_clears_word(seg, idx) ==
    LET r == index_for(idx)
    IN  IF ~r[1] THEN seg
        ELSE [seg EXCEPT ![r[2] + 1] = {}]

\* set_off(segment, idx): segment[x] &= !y
set_off(seg, idx) ==
    LET r == index_for(idx)
    IN  IF ~r[1] THEN seg
        ELSE [seg EXCEPT ![r[2] + 1] = @ \ {r[3]}]

\* set_on setting the bit above the one index_for names.
set_on_bit_above(seg, idx) ==
    LET r == index_for(idx)
    IN  IF ~r[1] THEN seg
        ELSE [seg EXCEPT ![r[2] + 1] = @ \cup {(r[3] + 1) % WORD_BITS}]

\* set_on(segment, idx): segment[x] |= y
set_on(seg, idx) ==
    LET r == index_for(idx)
    IN  IF ~r[1] THEN seg
        ELSE [seg EXCEPT ![r[2] + 1] = @ \cup {r[3]}]

\* The access segment[x] of get / set_off / set_on panics.
codec_panics(seg, idx) ==
    LET r == index_for(idx)
    IN  r[1] /\ ~InBounds(seg, r[2])

(***************************************************************************)
(* wheel.rs: the mod-30 wheel.                                             *)
(***************************************************************************)
\* The match of Wheel30::new on mult % 30; NUM_DIFFS stands for the
\* unreachable!() arm.
wheel_ix(mult) ==
    LET m == mult % WHEEL_MOD
    IN  CASE m = 1 -> 7
          [] m = 7 -> 0
          [] m = 11 -> 1
          [] m = 13 -> 2
          [] m = 17 -> 3
          [] m = 19 -> 4
          [] m = 23 -> 5
          [] m = 29 -> 6
          [] OTHER -> NUM_DIFFS

wheel_unreachable(mult) == wheel_ix(mult) = NUM_DIFFS

\* Wheel30::new with the differences left unscaled by num.
Wheel30_new_unscaled(num, mult) ==
    [curr_ix |-> wheel_ix(mult), diffs |-> <<6, 4, 2, 4, 2, 4, 6, 2>>]

\* Wheel30::new(num, mult); diffs[i] of the code is diffs[i + 1] here.
Wheel30_new(num, mult) ==
    [curr_ix |-> wheel_ix(mult),
     diffs |-> <<6 * num, 4 * num, 2 * num, 4 * num, 2 * num, 4 * num, 6 * num, 2 * num>>]

\* Wheel30::next_diff(&mut self): the wheel after the call.
wheel_advance(wheel) ==
    LET ix == wheel.curr_ix + 1
    IN  [wheel EXCEPT !.curr_ix = IF ix = NUM_DIFFS THEN 0 ELSE ix]

\* next_diff returning the difference at curr_ix before it is advanced.
next_diff_before_advance(wheel) == wheel.diffs[wheel.curr_ix + 1]

\* Wheel30::next_diff(&mut self): the value returned.
next_diff(wheel) == wheel.diffs[wheel_advance(wheel).curr_ix + 1]

(***************************************************************************)
(* iterator.rs: the decoder.                                               *)
(***************************************************************************)
OFFSETS ==
    <<1, 7, 11, 13, 17, 19, 23, 29,
      31, 37, 41, 43, 47, 49, 53, 59,
      61, 67, 71, 73, 77, 79, 83, 89,
      91, 97, 101, 103, 107, 109, 113, 119,
      121, 127, 131, 133, 137, 139, 143, 149,
      151, 157, 161, 163, 167, 169, 173, 179,
      181, 187, 191, 193, 197, 199, 203, 209,
      211, 217, 221, 223, 227, 229, 233, 239>>

\* Option<u64>
Some(v) == [tag |-> "Some", val |-> v]
None == [tag |-> "None", val |-> 0]
Panic == [tag |-> "Panic", val |-> 0]

\* SieveIterator::new starting with current = 0 whatever the first word is.
SieveIterator_new_current_zero(words) == [current |-> {}, base |-> 0, curr_idx |-> 0]

\* SieveIterator::new(sieve): the cursor; the borrowed slice is passed to
\* SieveIterator_next by its caller.
SieveIterator_new(words) ==
    IF Len(words) = 0
    THEN [current |-> {}, base |-> 0, curr_idx |-> 0]
    ELSE [current |-> words[1], base |-> 0, curr_idx |-> 0]

\* find_word with `self.base += MODULUS` left out for the word it stops at.
RECURSIVE find_word_base_late(_, _, _)
find_word_base_late(it, words, idx) ==
    IF idx >= Len(words) THEN it
    ELSE IF words[idx + 1] # {}
    THEN [it EXCEPT !.current = words[idx + 1], !.curr_idx = idx]
    ELSE find_word_base_late([it EXCEPT !.base = @ + MODULUS], words, idx + 1)

\* The loop `for idx in self.curr_idx + 1..self.sieve.len()` of next().
RECURSIVE find_word(_, _, _)
find_word(it, words, idx) ==
    IF idx >= Len(words) THEN it
    ELSE LET based == [it EXCEPT !.base = @ + MODULUS]
         IN  IF words[idx + 1] # {}
             THEN [based EXCEPT !.current = words[idx + 1], !.curr_idx = idx]
             ELSE find_word(based, words, idx + 1)

\* SieveIterator::next(&mut self) -> [it: the cursor after, out: Option<u64>]
SieveIterator_next(it, words) ==
    LET found == IF it.current = {} THEN find_word(it, words, it.curr_idx + 1) ELSE it
    IN  IF found.current = {}
        THEN [it |-> found, out |-> None]
        ELSE LET bit == Min(found.current)
             IN  [it |-> [found EXCEPT !.current = @ \ {bit}],
                  out |-> Some(found.base + OFFSETS[bit + 1])]

\* One call of next() by collect on st = [it: the cursor, out: the values
\* gathered, done: next() has returned None].
decode_step(st, words) ==
    LET r == SieveIterator_next(st.it, words)
    IN  IF st.done THEN st
        ELSE IF r.out.tag = "None" THEN [st EXCEPT !.done = TRUE]
        ELSE [it |-> r.it, out |-> Append(st.out, r.out.val), done |-> FALSE]

\* 2^e calls of next() by collect, or fewer when the decoder ends before
\* (the halving keeps the evaluation shallow).
RECURSIVE decode_iterations(_, _, _)
decode_iterations(st, words, e) ==
    IF st.done THEN st
    ELSE IF e = 0 THEN decode_step(st, words)
    ELSE decode_iterations(decode_iterations(st, words, e - 1), words, e - 1)

\* The calls of next() by collect up to the end of the decoder.
RECURSIVE decode_run(_, _, _)
decode_run(st, words, e) ==
    LET after == decode_iterations(st, words, e)
    IN  IF after.done THEN after.out ELSE decode_run(after, words, e + 1)

\* collect(): every value of the decoder from cursor `it` on.
decode_from(it, words) == decode_run([it |-> it, out |-> <<>>, done |-> FALSE], words, 0)

(***************************************************************************)
(* segsieve.rs: the segmented sieve.                                       *)
(***************************************************************************)
\* The literal assigned to sieve[0] in small_primes (segsieve.rs:26), digit
\* by digit, most significant bit first.
SIEVE0_DIGITS ==
    <<1,1,1,1,1,0,0,1, 0,0,1,1,1,1,0,1, 1,1,0,1,1,0,1,1, 1,0,1,1,0,1,1,0,
      0,1,1,1,1,1,1,0, 1,1,1,0,1,1,1,1, 1,1,0,1,1,1,1,1, 1,1,1,1,1,1,1,0>>

SIEVE0 == {b \in ALL_ONES : SIEVE0_DIGITS[WORD_BITS - b] = 1}

\* SEGMENT_SIZE = MODULUS * SEGMENT_LEN, for a segment of seg_len words.
SEGMENT_SIZE(seg_len) == MODULUS * seg_len

\* vec![!0; n]
ones_vec(n) == [i \in 1..n |-> ALL_ONES]

\* rounded_limit rounding up to a multiple of MODULUS but keeping a limit
\* that already is one.
rounded_limit_ceiling(lmt) == lmt + (MODULUS - 1) - ((lmt + MODULUS - 1) % MODULUS)

\* lim of segmented_sieve: limit + MODULUS - (limit % MODULUS)
rounded_limit(lmt) == lmt + MODULUS - (lmt % MODULUS)

\* The buffer small_primes(limit) allocates: (sqrt / MODULUS + 1) words of
\* !0 with the first replaced by the literal.
small_primes_buffer(lmt) ==
    LET sqrt == Isqrt(lmt)
    IN  [ones_vec(sqrt \div MODULUS + 1) EXCEPT ![1] = SIEVE0]

\* The buffer as it stands when `&sieve` is handed to SieveIterator::new
\* (segsieve.rs:34), for a buffer that now holds `words`: no multiple has
\* been crossed off yet.
borrowed_sieve(words) == [ones_vec(Len(words)) EXCEPT ![1] = SIEVE0]

\* What a load of the decoder through `&sieve` may see.  The loop writes
\* the same memory through sieve_mut (segsieve.rs:33, 44) while the shared
\* borrow is alive, which the language leaves undefined: a build may load
\* the word as it is in memory, or as it was when the borrow was taken,
\* the slice behind a shared borrow counting as unchanged.
sieve_as_read(words) == {words, borrowed_sieve(words)}

\* small_limit taking the buffer for one word long.
small_limit_first_word(words) == 240

\* small_limit = 240 * sieve.len()
small_limit(words) == 240 * Len(words)

\* One test of `index < bound` and, when it holds, one body of that loop
\* on st = [segment, index, wheel, panic: set_off has indexed past the
\* end of the segment, done: the loop has ended].
cross_off_step(st, bound) ==
    IF st.done THEN st
    ELSE IF st.index >= bound THEN [st EXCEPT !.done = TRUE]
    ELSE IF codec_panics(st.segment, st.index)
    THEN [st EXCEPT !.panic = TRUE, !.done = TRUE]
    ELSE [segment |-> set_off(st.segment, st.index),
          index |-> st.index + next_diff(st.wheel),
          wheel |-> wheel_advance(st.wheel),
          panic |-> FALSE,
          done |-> FALSE]

\* 2^e turns of that loop, or fewer when it ends before (the halving keeps
\* the evaluation shallow).
RECURSIVE cross_off_iterations(_, _, _)
cross_off_iterations(st, bound, e) ==
    IF st.done THEN st
    ELSE IF e = 0 THEN cross_off_step(st, bound)
    ELSE cross_off_iterations(cross_off_iterations(st, bound, e - 1), bound, e - 1)

\* The turns of that loop up to its end.
RECURSIVE cross_off_run(_, _, _)
cross_off_run(st, bound, e) ==
    IF st.done THEN st
    ELSE cross_off_run(cross_off_iterations(st, bound, e), bound, e + 1)

\* The loop `while index < bound { set_off(segment, index); index +=
\* wheel.next_diff() }` shared by small_primes and segmented_sieve.
cross_off(seg, index, wheel, bound) ==
    cross_off_run([segment |-> seg, index |-> index, wheel |-> wheel,
                   panic |-> FALSE, done |-> FALSE], bound, 0)

\* One iteration of `for prime in iter` of small_primes on the buffer
\* `words`, the decoder loading from `seen`, what its borrow of the buffer
\* shows it.  done: the loop has ended.
small_primes_iteration(it, seen, words) ==
    LET r == SieveIterator_next(it, seen)
        prime == r.out.val
        multiple == prime * prime
    IN  IF r.out.tag = "None"
        THEN [it |-> r.it, sieve |-> words, done |-> TRUE, panic |-> FALSE]
        ELSE IF wheel_unreachable(prime)
        THEN [it |-> r.it, sieve |-> words, done |-> TRUE, panic |-> TRUE]
        ELSE IF multiple >= small_limit(words)
        THEN [it |-> r.it, sieve |-> words, done |-> TRUE, panic |-> FALSE]
        ELSE LET c == cross_off(words, multiple, Wheel30_new(prime, prime),
                                small_limit(words))
             IN  [it |-> r.it, sieve |-> c.segment, done |-> FALSE, panic |-> c.panic]

\* That iteration when the decoder loads what is in memory.
small_primes_step(it, words) == small_primes_iteration(it, words, words)

\* high = min(low + SEGMENT_SIZE, lim)
segment_high(lo, seg_len, rlim) ==
    IF lo + SEGMENT_SIZE(seg_len) <= rlim THEN lo + SEGMENT_SIZE(seg_len) ELSE rlim

\* first_segment without `segment[0] ^= 1`.
first_segment_keeps_one(seg_len) == ones_vec(seg_len)

\* The scratch segment of the first pass: [!0; SEGMENT_LEN] with
\* segment[0] ^= 1.
first_segment(seg_len) ==
    [ones_vec(seg_len) EXCEPT ![1] = (@ \ {0}) \cup ({0} \ @)]

\* new_entry with the index left at prime * prime, low not subtracted.
new_entry_from_zero(prime, lo) ==
    [index |-> prime * prime, wheel |-> Wheel30_new(prime, prime)]

\* The entry pushed for a newly pulled prime:
\* (prime * prime - low, Wheel30::new(prime, prime))
new_entry(prime, lo) ==
    [index |-> prime * prime - lo, wheel |-> Wheel30_new(prime, prime)]

\* pull_prime without the break: the loop goes on after a prime whose
\* square is not below high.
pull_prime_without_break(it, entries, lo, hi, small) ==
    LET r == SieveIterator_next(it, small)
        prime == r.out.val
    IN  IF r.out.tag = "None"
        THEN [it |-> r.it, next_indices |-> entries, done |-> TRUE, panic |-> FALSE]
        ELSE IF prime * prime < lo \/ wheel_unreachable(prime)
        THEN [it |-> r.it, next_indices |-> entries, done |-> TRUE, panic |-> TRUE]
        ELSE [it |-> r.it,
              next_indices |-> Append(entries, new_entry(prime, lo)),
              done |-> FALSE,
              panic |-> FALSE]

\* One iteration of `while let Some(prime) = small_primes_iter.next()`.
\* done: the loop has ended (None, or the break).
pull_prime(it, entries, lo, hi, small) ==
    LET r == SieveIterator_next(it, small)
        prime == r.out.val
    IN  IF r.out.tag = "None"
        THEN [it |-> r.it, next_indices |-> entries, done |-> TRUE, panic |-> FALSE]
        ELSE IF prime * prime < lo \/ wheel_unreachable(prime)
        THEN [it |-> r.it, next_indices |-> entries, done |-> TRUE, panic |-> TRUE]
        ELSE [it |-> r.it,
              next_indices |-> Append(entries, new_entry(prime, lo)),
              done |-> prime * prime >= hi,
              panic |-> FALSE]

\* rebase without the subtraction: the index is carried over as it is.
rebase_left_out(index, seg_size) == index

\* The stored index of a tracked prime after its pass over the segment:
\* *index -= segment_size
rebase(index, seg_size) == index - seg_size

\* One iteration of `for &mut (ref mut index, ref mut wheel) in &mut
\* next_indices`: cross off, then rebase the index.
sieve_entry(seg, entry, seg_size) ==
    LET c == cross_off(seg, entry.index, entry.wheel, seg_size)
    IN  [segment |-> c.segment,
         entry |-> [index |-> rebase(c.index, seg_size), wheel |-> c.wheel],
         panic |-> c.panic \/ c.index < seg_size]

\* stored_words storing the whole scratch segment whatever the pass covers.
stored_words_whole(seg, seg_size, seg_len) == seg

\* segments.extend_from_slice(...): the words of this pass.
stored_words(seg, seg_size, seg_len) ==
    IF seg_size < SEGMENT_SIZE(seg_len)
    THEN SubSeq(seg, 1, seg_size \div MODULUS)
    ELSE seg

\* The whole while-let loop of one pass.
RECURSIVE pull_all(_, _, _, _, _)
pull_all(it, entries, lo, hi, small) ==
    LET r == pull_prime(it, entries, lo, hi, small)
    IN  IF r.done THEN r ELSE pull_all(r.it, r.next_indices, lo, hi, small)

\* The whole for loop of one pass, from entry j (0-indexed) on.
RECURSIVE sieve_all(_, _, _, _)
sieve_all(seg, entries, from, seg_size) ==
    IF from >= Len(entries)
    THEN [segment |-> seg, next_indices |-> entries]
    ELSE LET r == sieve_entry(seg, entries[from + 1], seg_size)
         IN  sieve_all(r.segment, [entries EXCEPT ![from + 1] = r.entry],
                       from + 1, seg_size)

\* The loop `while low <= lim` of segmented_sieve run to its end: the
\* vector `segments` it returns.
RECURSIVE run_segments(_, _, _, _, _, _, _, _)
run_segments(lo, it, entries, seg, acc, seg_len, rlim, small) ==
    IF lo > rlim THEN acc
    ELSE LET hi == segment_high(lo, seg_len, rlim)
             seg_size == hi - lo
             p == pull_all(it, entries, lo, hi, small)
             s == sieve_all(seg, p.next_indices, 0, seg_size)
         IN  run_segments(lo + SEGMENT_SIZE(seg_len), p.it, s.next_indices,
                          ones_vec(seg_len),
                          acc \o stored_words(s.segment, seg_size, seg_len),
                          seg_len, rlim, small)

\* The whole loop of small_primes: the buffer it returns.
RECURSIVE small_primes_run(_, _)
small_primes_run(it, words) ==
    LET r == small_primes_step(it, words)
    IN  IF r.done THEN r.sieve ELSE small_primes_run(r.it, r.sieve)

\* small_primes(limit)
small_primes_of(lmt) ==
    LET buffer == small_primes_buffer(lmt)
    IN  small_primes_run(SieveIterator_new(buffer), buffer)

\* segmented_sieve(limit) with segments of seg_len words.
segmented_sieve(lmt, seg_len) ==
    LET rlim == rounded_limit(lmt)
        small == small_primes_of(rlim)
    IN  run_segments(0, SieveIterator_new(small), <<>>, first_segment(seg_len),
                     <<>>, seg_len, rlim, small)

(***************************************************************************)
(* sieve/mod.rs and sieve/primefuncs.rs: the Sieve facade.                 *)
(***************************************************************************)
\* The values of `(f * (f.ln() + f.ln().ln())) as u64` for f = 6, 7, ..., 140,
\* evaluated in IEEE double arithmetic as the expression of upper_bound is.
UPPER_BOUND_TABLE ==
    <<14, 18, 22, 26, 31, 35, 40, 45, 50, 55, 60, 65, 71, 76, 81, 87, 92, 98,
      104, 109, 115, 121, 127, 132, 138, 144, 150, 156, 162, 168, 174, 181,
      187, 193, 199, 206, 212, 218, 225, 231, 237, 244, 250, 257, 263, 270,
      276, 283, 290, 296, 303, 310, 316, 323, 330, 336, 343, 350, 357, 364,
      371, 377, 384, 391, 398, 405, 412, 419, 426, 433, 440, 447, 454, 461,
      468, 475, 482, 490, 497, 504, 511, 518, 525, 533, 540, 547, 554, 562,
      569, 576, 583, 591, 598, 605, 613, 620, 627, 635, 642, 650, 657, 664,
      672, 679, 687, 694, 702, 709, 717, 724, 732, 739, 747, 754, 762, 769,
      777, 785, 792, 800, 807, 815, 823, 830, 838, 846, 853, 861, 869, 876,
      884, 892, 900, 907>>

\* upper_bound(n)
upper_bound(n) == IF n <= 5 THEN 12 ELSE UPPER_BOUND_TABLE[n - 5]

\* ctor_limit with to_n_primes handing n itself to segmented_sieve.
ctor_limit_is_n(c, a) == a

\* The limit the constructor hands to segmented_sieve.
ctor_limit(c, a) == IF c = "to_limit" THEN a ELSE upper_bound(a + 1)

\* count_ones()
count_ones(word) == Cardinality(word)

\* The loop of to_limit / to_n_primes that fills counts, starting the count
\* at count0 = 0.
RECURSIVE prefix_counts(_, _, _)
prefix_counts(words, i, count) ==
    IF i > Len(words) THEN <<>>
    ELSE <<count + count_ones(words[i])>>
         \o prefix_counts(words, i + 1, count + count_ones(words[i]))

\* Sieve::limit(&self)
Sieve_limit == MODULUS * Len(primes)

\* Sieve::num_primes(&self): self.counts[self.counts.len() - 1]
num_primes == counts[Len(counts)]

\* self.counts.binary_search(&k): the outcomes the standard library allows,
\* Ok(x) for any x with counts[x] = k, else Err(insertion point).
binary_search(k) ==
    LET hits == {x \in 0..(Len(counts) - 1) : counts[x + 1] = k}
    IN  IF hits # {}
        THEN {[ok |-> TRUE, x |-> x] : x \in hits}
        ELSE {[ok |-> FALSE,
               x |-> Cardinality({y \in 0..(Len(counts) - 1) : counts[y + 1] < k})]}

\* skip_equal advancing by one entry only, whatever the next entry holds.
skip_equal_once(x, k) == x + 1

\* while self.counts[x] == k { x += 1 }; -1 stands for the panic of an
\* index past the end of counts.
RECURSIVE skip_equal(_, _)
skip_equal(x, k) ==
    IF x >= Len(counts) THEN -1
    ELSE IF counts[x + 1] = k THEN skip_equal(x + 1, k) ELSE x

\* word_index without the advance past the entries of counts equal to k.
word_index_no_advance(found, k) == found.x

\* The word index nth_prime settles on for one outcome of the search.
word_index(found, k) == IF found.ok THEN skip_equal(found.x, k) ELSE found.x

\* Iterator::nth(m) over the decoder.
RECURSIVE iterator_nth(_, _, _)
iterator_nth(c, words, m) ==
    LET r == SieveIterator_next(c, words)
    IN  IF r.out.tag = "None" \/ m = 0 THEN r.out
        ELSE iterator_nth(r.it, words, m - 1)

\* The tail of nth_prime once idx is known.
prime_in_word(idx, k) ==
    IF idx < 0 \/ idx >= Len(counts) THEN Panic
    ELSE LET count == counts[idx + 1] - count_ones(primes[idx + 1])
             word == <<primes[idx + 1]>>
             found == IF k - count < 0 THEN None
                      ELSE iterator_nth(SieveIterator_new(word), word, k - count)
         IN  IF found.tag = "None" THEN Panic
             ELSE Some(MODULUS * idx + found.val)

\* Sieve::nth_prime(&self, n): the set of results it can return.
nth_prime(n) ==
    CASE n = 0 -> {Some(2)}
      [] n = 1 -> {Some(3)}
      [] n = 2 -> {Some(5)}
      [] OTHER ->
            IF Len(counts) = 0 THEN {Panic}
            ELSE IF n < num_primes
            THEN {prime_in_word(word_index(found, n - 3), n - 3) :
                      found \in binary_search(n - 3)}
            ELSE {None}

\* Sieve::iter(&self)
Sieve_iter == [small |-> "Two", sieve_iter |-> SieveIterator_new(primes)]

\* sieve::SieveIterator::next(&mut self) -> [it, out]
Sieve_next(c) ==
    CASE c.small = "Two" -> [it |-> [c EXCEPT !.small = "Three"], out |-> Some(2)]
      [] c.small = "Three" -> [it |-> [c EXCEPT !.small = "Five"], out |-> Some(3)]
      [] c.small = "Five" -> [it |-> [c EXCEPT !.small = "None"], out |-> Some(5)]
      [] OTHER ->
            LET r == SieveIterator_next(c.sieve_iter, primes)
            IN  [it |-> [c EXCEPT !.sieve_iter = r.it], out |-> r.out]

\* self.iter().collect(): everything iter() yields from cursor c on.
\* One call of next() by collect on st = [it: the iterator, out: the values
\* gathered, done: next() has returned None].
collect_step(st) ==
    LET r == Sieve_next(st.it)
    IN  IF st.done THEN st
        ELSE IF r.out.tag = "None" THEN [st EXCEPT !.done = TRUE]
        ELSE [it |-> r.it, out |-> Append(st.out, r.out.val), done |-> FALSE]

\* 2^e calls of next() by collect, or fewer when the iterator ends before
\* (the halving keeps the evaluation shallow).
RECURSIVE collect_iterations(_, _)
collect_iterations(st, e) ==
    IF st.done THEN st
    ELSE IF e = 0 THEN collect_step(st)
    ELSE collect_iterations(collect_iterations(st, e - 1), e - 1)

\* The calls of next() by collect up to the end of the iterator.
RECURSIVE collect_run(_, _)
collect_run(st, e) ==
    LET after == collect_iterations(st, e)
    IN  IF after.done THEN after.out ELSE collect_run(after, e + 1)

collect(c) == collect_run([it |-> c, out |-> <<>>, done |-> FALSE], 0)

\* Result<bool, ()>
Ok(b) == [tag |-> "Ok", val |-> b]
Err == [tag |-> "Err", val |-> FALSE]

\* trial_step stopping at p * p >= n instead of p * p > n.
trial_step_stops_early(st, n) ==
    LET r == Sieve_next(st.c)
        p == r.out.val
    IN  IF st.done THEN st
        ELSE IF r.out.tag = "None" THEN [st EXCEPT !.done = TRUE, !.res = TRUE]
        ELSE IF p * p >= n THEN [st EXCEPT !.done = TRUE, !.res = TRUE]
        ELSE IF n % p = 0 THEN [st EXCEPT !.done = TRUE, !.res = FALSE]
        ELSE [st EXCEPT !.c = r.it]

\* One iteration of `for p in self.iter()` of Sieve::trial_division on
\* st = [c: the iterator, done: the function has returned, res: what it
\* returned].  p.saturating_mul(p) is p * p: no product of the model
\* reaches 2^64.
trial_step(st, n) ==
    LET r == Sieve_next(st.c)
        p == r.out.val
    IN  IF st.done THEN st
        ELSE IF r.out.tag = "None" THEN [st EXCEPT !.done = TRUE, !.res = TRUE]
        ELSE IF p * p > n THEN [st EXCEPT !.done = TRUE, !.res = TRUE]
        ELSE IF n % p = 0 THEN [st EXCEPT !.done = TRUE, !.res = FALSE]
        ELSE [st EXCEPT !.c = r.it]

\* 2^e iterations of that loop, or fewer when the function returns before
\* (the halving keeps the evaluation shallow).
RECURSIVE trial_iterations(_, _, _)
trial_iterations(st, n, e) ==
    IF st.done THEN st
    ELSE IF e = 0 THEN trial_step(st, n)
    ELSE trial_iterations(trial_iterations(st, n, e - 1), n, e - 1)

\* The iterations of that loop up to the return.
RECURSIVE trial_run(_, _, _)
trial_run(st, n, e) ==
    LET after == trial_iterations(st, n, e)
    IN  IF after.done THEN after.res ELSE trial_run(after, n, e + 1)

\* The loop of Sieve::trial_division over the iterator c, and the `true`
\* after it.
trial_loop(c, n) == trial_run([c |-> c, done |-> FALSE, res |-> TRUE], n, 0)

\* Sieve::trial_division(&self, n)
trial_division(n) == trial_loop(Sieve_iter, n)

\* is_prime with `n < limit^2` for `n <= limit^2`.
is_prime_strict_bound(n) ==
    IF n \in {2, 3, 5} THEN Ok(TRUE)
    ELSE IF n < Sieve_limit THEN Ok(get(primes, n))
    ELSE IF n < Sieve_limit * Sieve_limit THEN Ok(trial_division(n))
    ELSE Err

\* Sieve::is_prime(&self, n) of sieve/primefuncs.rs
is_prime(n) ==
    IF n \in {2, 3, 5} THEN Ok(TRUE)
    ELSE IF n < Sieve_limit THEN Ok(get(primes, n))
    ELSE IF n <= Sieve_limit * Sieve_limit THEN Ok(trial_division(n))
    ELSE Err

(***************************************************************************)
(* The state machine: a constructor runs to the end, then the finished     *)
(* Sieve answers a caller.  The finished Sieve is immutable, so no query   *)
(* changes what another returns: a behaviour follows one query, or one     *)
(* iterator from iter() to its end.                                        *)
(***************************************************************************)
NoCursor == [small |-> "NoCursor", sieve_iter |-> [current |-> {}, base |-> 0, curr_idx |-> 0]]
NoQuery == [op |-> "none", arg |-> 0, res |-> None]

\* Entry to to_limit(arg) / to_n_primes(arg): segmented_sieve has computed
\* lim and small_primes has allocated its buffer and created its decoder.
Init ==
    /\ ctor \in {"to_limit", "to_n_primes"}
    /\ arg \in 0..(IF ctor = "to_limit" THEN MaxLimit ELSE MaxN)
    /\ SEGMENT_LEN \in 1..MaxSegmentLen
    /\ pc = "small_primes"
    /\ limit = ctor_limit(ctor, arg)
    /\ lim = rounded_limit(limit)
    /\ sieve = small_primes_buffer(lim)
    /\ iter = SieveIterator_new(sieve)
    /\ small_primes = <<>>
    /\ small_primes_iter = SieveIterator_new(<<>>)
    /\ segment = <<>>
    /\ segments = <<>>
    /\ next_indices = <<>>
    /\ low = 0
    /\ j = 0
    /\ primes = <<>>
    /\ counts = <<>>
    /\ cursor = NoCursor
    /\ yielded = <<>>
    /\ exhausted = FALSE
    /\ q = NoQuery

high == segment_high(low, SEGMENT_LEN, lim)
segment_size == high - low

\* small_primes: one iteration of `for prime in iter`; when the loop ends
\* the buffer is returned and segmented_sieve sets up its first pass.
SmallPrimesStep ==
    /\ pc = "small_primes"
    /\ \E seen \in sieve_as_read(sieve) :
       LET r == small_primes_iteration(iter, seen, sieve)
       IN  /\ iter' = r.it
           /\ sieve' = r.sieve
           /\ IF r.panic
              THEN /\ pc' = "panicked"
                   /\ UNCHANGED <<small_primes, small_primes_iter, segment>>
              ELSE IF r.done
              THEN /\ pc' = "pull"
                   /\ small_primes' = r.sieve
                   /\ small_primes_iter' = SieveIterator_new(r.sieve)
                   /\ segment' = first_segment(SEGMENT_LEN)
              ELSE /\ pc' = "small_primes"
                   /\ UNCHANGED <<small_primes, small_primes_iter, segment>>
    /\ UNCHANGED <<ctor, arg, SEGMENT_LEN, limit, lim, segments, next_indices, low, j,
                   primes, counts, cursor, yielded, exhausted, q>>

\* segmented_sieve: one iteration of `while let Some(prime) =
\* small_primes_iter.next()`.
PullPrime ==
    /\ pc = "pull"
    /\ LET r == pull_prime(small_primes_iter, next_indices, low, high, small_primes)
       IN  /\ small_primes_iter' = r.it
           /\ next_indices' = r.next_indices
           /\ pc' = IF r.panic THEN "panicked" ELSE IF r.done THEN "sieve" ELSE "pull"
    /\ j' = 0
    /\ UNCHANGED <<ctor, arg, SEGMENT_LEN, limit, lim, sieve, iter, small_primes, segment,
                   segments, low, primes, counts, cursor, yielded, exhausted, q>>

\* segmented_sieve: one iteration of the for loop over next_indices.
SievePrime ==
    /\ pc = "sieve"
    /\ j < Len(next_indices)
    /\ LET r == sieve_entry(segment, next_indices[j + 1], segment_size)
       IN  /\ segment' = r.segment
           /\ next_indices' = [next_indices EXCEPT ![j + 1] = r.entry]
           /\ pc' = IF r.panic THEN "panicked" ELSE "sieve"
    /\ j' = j + 1
    /\ UNCHANGED <<ctor, arg, SEGMENT_LEN, limit, lim, sieve, iter, small_primes,
                   small_primes_iter, segments, low, primes, counts, cursor, yielded,
                   exhausted, q>>

\* segmented_sieve: the end of a pass: store the words, advance low, reset
\* the scratch segment and test `low <= lim`.
StoreSegment ==
    /\ pc = "sieve"
    /\ j >= Len(next_indices)
    /\ segments' = segments \o stored_words(segment, segment_size, SEGMENT_LEN)
    /\ low' = low + SEGMENT_SIZE(SEGMENT_LEN)
    /\ segment' = ones_vec(SEGMENT_LEN)
    /\ pc' = IF low' <= lim THEN "pull" ELSE "counts"
    /\ UNCHANGED <<ctor, arg, SEGMENT_LEN, limit, lim, sieve, iter, small_primes,
                   small_primes_iter, next_indices, j, primes, counts, cursor, yielded,
                   exhausted, q>>

\* to_limit / to_n_primes: count the primes of the returned vector and
\* build the Sieve.
BuildCounts ==
    /\ pc = "counts"
    /\ primes' = segments
    /\ counts' = prefix_counts(segments, 1, 0)
    /\ pc' = "built"
    /\ UNCHANGED <<ctor, arg, SEGMENT_LEN, build_vars, cursor, yielded, exhausted, q>>

\* The arguments the model hands to is_prime: the small numbers, the
\* numbers of the doc-tests, some squares, and windows around limit() and
\* limit()^2.
IsPrimeArgs ==
    (0..13) \cup {491, 493, 495, 497, 499, 1000001}
    \cup {d * d : d \in 15..31}
    \cup ((Sieve_limit - QSpan)..(Sieve_limit + QSpan))
    \cup ((Sieve_limit * Sieve_limit - QSpan)..(Sieve_limit * Sieve_limit + QSpan))

\* The arguments the model hands to nth_prime.
NthPrimeArgs ==
    LET held == IF Len(counts) = 0 THEN 0 ELSE num_primes
    IN  (0..4) \cup {97, 98, 99, 1000}
        \cup {k \in (held - QSpan)..(held + QSpan) : k >= 0}

\* A caller asks is_prime(n).
IsPrimeQuery ==
    /\ pc = "built"
    /\ cursor = NoCursor
    /\ q = NoQuery
    /\ \E n \in IsPrimeArgs : q' = [op |-> "is_prime", arg |-> n, res |-> is_prime(n)]
    /\ UNCHANGED <<ctor, arg, SEGMENT_LEN, pc, build_vars, primes, counts, cursor,
                   yielded, exhausted>>

\* A caller asks nth_prime(n).
NthPrimeQuery ==
    /\ pc = "built"
    /\ cursor = NoCursor
    /\ q = NoQuery
    /\ \E n \in NthPrimeArgs : \E r \in nth_prime(n) :
           q' = [op |-> "nth_prime", arg |-> n, res |-> r]
    /\ UNCHANGED <<ctor, arg, SEGMENT_LEN, pc, build_vars, primes, counts, cursor,
                   yielded, exhausted>>

\* A caller asks num_primes().
NumPrimesQuery ==
    /\ pc = "built"
    /\ cursor = NoCursor
    /\ q = NoQuery
    /\ q' = [op |-> "num_primes", arg |-> 0,
             res |-> IF Len(counts) = 0 THEN Panic ELSE Some(num_primes)]
    /\ UNCHANGED <<ctor, arg, SEGMENT_LEN, pc, build_vars, primes, counts, cursor,
                   yielded, exhausted>>

\* A caller asks limit().
LimitQuery ==
    /\ pc = "built"
    /\ cursor = NoCursor
    /\ q = NoQuery
    /\ q' = [op |-> "limit", arg |-> 0, res |-> Some(Sieve_limit)]
    /\ UNCHANGED <<ctor, arg, SEGMENT_LEN, pc, build_vars, primes, counts, cursor,
                   yielded, exhausted>>

\* A caller calls iter().
Iter ==
    /\ pc = "built"
    /\ cursor = NoCursor
    /\ q = NoQuery
    /\ cursor' = Sieve_iter
    /\ UNCHANGED <<ctor, arg, SEGMENT_LEN, pc, build_vars, primes, counts, yielded,
                   exhausted, q>>

\* The caller calls next() on its iterator, until it has returned None.
Next_ ==
    /\ pc = "built"
    /\ cursor # NoCursor
    /\ ~exhausted
    /\ LET r == Sieve_next(cursor)
       IN  /\ cursor' = r.it
           /\ yielded' = IF r.out.tag = "Some" THEN Append(yielded, r.out.val) ELSE yielded
           /\ exhausted' = (r.out.tag = "None")
    /\ UNCHANGED <<ctor, arg, SEGMENT_LEN, pc, build_vars, primes, counts, q>>

Next ==
    \/ SmallPrimesStep
    \/ PullPrime
    \/ SievePrime
    \/ StoreSegment
    \/ BuildCounts
    \/ IsPrimeQuery
    \/ NthPrimeQuery
    \/ NumPrimesQuery
    \/ LimitQuery
    \/ Iter
    \/ Next_

Spec == Init /\ [][Next]_vars

(***************************************************************************)
(* Reference notions the properties are stated against.                    *)
(***************************************************************************)
\* n is a prime number.
IsPrimeNumber(n) == n >= 2 /\ \A d \in 2..Isqrt(n) : n % d # 0

\* The largest limit() a Sieve of the model reaches.
MaxSieveLimit ==
    LET a == rounded_limit(MaxLimit)
        b == rounded_limit(upper_bound(MaxN + 1))
    IN  IF a >= b THEN a ELSE b

\* The prime numbers below MaxSieveLimit.
PRIME_NUMBERS == {n \in 2..(MaxSieveLimit - 1) : \A d \in 2..(n - 1) : d * d > n \/ n % d # 0}

\* The prime numbers of lo..hi in increasing order.
RECURSIVE primes_between(_, _)
primes_between(lo, hi) ==
    IF lo > hi THEN <<>>
    ELSE IF lo = hi THEN (IF lo \in PRIME_NUMBERS THEN <<lo>> ELSE <<>>)
    ELSE LET mid == (lo + hi) \div 2
         IN  primes_between(lo, mid) \o primes_between(mid + 1, hi)

\* PRIME_SEQUENCE[k + 1] is the k-th prime number, counted from 0.
PRIME_SEQUENCE == primes_between(0, MaxSieveLimit - 1)

\* The constructor has just returned: no query made, no iterator created.
Fresh == pc = "built" /\ q = NoQuery /\ cursor = NoCursor

\* self.iter().nth(k): the k-th value (0-indexed) of iter(), or None.
iter_nth(c, k) ==
    LET from_c == collect(c)
    IN  IF k < Len(from_c) THEN Some(from_c[k + 1]) ELSE None

\* The total number of set bits of the store.
RECURSIVE popcount(_)
popcount(words) ==
    IF words = <<>> THEN 0 ELSE count_ones(Head(words)) + popcount(Tail(words))

(***************************************************************************)
(* C1.  For the sieve built by Sieve::to_limit(L) and every n < limit(),   *)
(* is_prime(n) is Ok(true) exactly when n is a prime number, and Ok(false) *)
(* otherwise; so false for 0, 1, 4, 6, 8, 9, 10 and true for 2, 3, 5, 7,   *)
(* 11, 13.  Stated for every n below limit() when the constructor returns  *)
(* and for the result of every is_prime query made.                        *)
(***************************************************************************)
C1_IsPrimeBelowLimit ==
    /\ (Fresh /\ ctor = "to_limit") =>
           /\ \A n \in 0..(Sieve_limit - 1) : is_prime(n) = Ok(n \in PRIME_NUMBERS)
           /\ \A n \in {0, 1, 4, 6, 8, 9, 10} : is_prime(n) = Ok(FALSE)
           /\ \A n \in {2, 3, 5, 7, 11, 13} : is_prime(n) = Ok(TRUE)
    /\ (pc = "built" /\ ctor = "to_limit" /\ q.op = "is_prime" /\ q.arg < Sieve_limit) =>
           q.res = Ok(IsPrimeNumber(q.arg))

\* to_limit(500).is_prime(491) has returned Ok(true).
C1_Witness ==
    /\ ctor = "to_limit" /\ arg = 500 /\ SEGMENT_LEN = 1
    /\ q = [op |-> "is_prime", arg |-> 491, res |-> Ok(TRUE)]

(***************************************************************************)
(* C2.  The values iter() yields are 2, 3, 5, ... in strictly increasing   *)
(* order, each below limit() with is_prime true, and no k with is_prime(k) *)
(* true lies between two successive values, before the first, or (once the *)
(* iterator has returned None) between the last and limit(): cut at any    *)
(* bound B <= limit(), the values below B are exactly the k < B with       *)
(* is_prime(k) true.                                                       *)
(***************************************************************************)
C2_IterYieldsIsPrime ==
    (pc = "built" /\ cursor # NoCursor) =>
        LET n == Len(yielded)
            last == IF n = 0 THEN -1 ELSE yielded[n]
            prev == IF n <= 1 THEN -1 ELSE yielded[n - 1]
        IN  /\ n >= 1 => yielded[1] = 2
            /\ n >= 2 => yielded[2] = 3
            /\ n >= 3 => yielded[3] = 5
            /\ n >= 1 =>
                   /\ prev < last
                   /\ last < Sieve_limit
                   /\ is_prime(last) = Ok(TRUE)
                   /\ \A k \in (prev + 1)..(last - 1) : is_prime(k) = Ok(FALSE)
            /\ exhausted =>
                   \A k \in (last + 1)..(Sieve_limit - 1) : is_prime(k) = Ok(FALSE)

\* An iterator over a two-word store has run to its end.
C2_Witness ==
    /\ exhausted
    /\ Sieve_limit = 480
    /\ Len(yielded) > 5
    /\ SubSeq(yielded, 1, 5) = <<2, 3, 5, 7, 11>>
    /\ yielded[Len(yielded)] = 479

(***************************************************************************)
(* C3.  For every k < num_primes(), nth_prime(k) returns Some(p), p being  *)
(* the k-th value (0-indexed) of iter().                                   *)
(***************************************************************************)
C3_NthPrimeAgreesWithIter ==
    /\ Fresh =>
           LET all == collect(Sieve_iter)
           IN  \A k \in 0..(num_primes - 1) : nth_prime(k) = {Some(all[k + 1])}
    /\ (pc = "built" /\ q.op = "nth_prime" /\ q.arg < num_primes) =>
           q.res = iter_nth(Sieve_iter, q.arg)

\* nth_prime(num_primes() - 1) has returned a prime of the last word.
C3_Witness ==
    /\ pc = "built" /\ ctor = "to_limit" /\ Len(primes) = 3
    /\ q.op = "nth_prime" /\ q.arg = num_primes - 1
    /\ q.res.tag = "Some" /\ q.res.val > 2 * MODULUS

(***************************************************************************)
(* C4.  num_primes() equals the number of primes the sieve knows: the 3    *)
(* implicit primes plus the population count of the store, which is the    *)
(* number of values iter() yields.                                         *)
(***************************************************************************)
C4_NumPrimesCountsAll ==
    pc = "built" =>
        /\ num_primes = 3 + popcount(primes)
        /\ num_primes = Len(collect(Sieve_iter))

(***************************************************************************)
(* C5.  nth_prime(n) never faults, returns Some whenever iter() yields     *)
(* more than n values, and returns None only when it yields n or fewer.    *)
(***************************************************************************)
C5_NthPrimeSomeWhenHeld ==
    (pc = "built" /\ q.op = "nth_prime") =>
        LET held == Len(collect(Sieve_iter))
        IN  /\ q.res.tag # "Panic"
            /\ q.arg < held => q.res.tag = "Some"
            /\ q.res.tag = "None" => q.arg >= held

(***************************************************************************)
(* C6.  The sieve built by Sieve::to_n_primes(n) knows at least the first  *)
(* n primes: num_primes() >= n, and nth_prime(k) is the k-th prime number  *)
(* for every k < n; for n = 100, nth_prime(97) = 521, nth_prime(98) = 523, *)
(* nth_prime(99) = 541 and nth_prime(1000) = None.                         *)
(***************************************************************************)
C6_ToNPrimesHoldsFirstN ==
    /\ (Fresh /\ ctor = "to_n_primes") =>
           /\ num_primes >= arg
           /\ \A k \in 0..(arg - 1) : nth_prime(k) = {Some(PRIME_SEQUENCE[k + 1])}
    /\ (Fresh /\ ctor = "to_n_primes" /\ arg = 100) =>
           /\ nth_prime(97) = {Some(521)}
           /\ nth_prime(98) = {Some(523)}
           /\ nth_prime(99) = {Some(541)}
           /\ nth_prime(1000) = {None}
    /\ (pc = "built" /\ ctor = "to_n_primes" /\ q.op = "nth_prime" /\ q.arg < arg) =>
           q.res = Some(PRIME_SEQUENCE[q.arg + 1])

\* to_n_primes(100).nth_prime(99) has returned Some(541).
C6_Witness ==
    /\ ctor = "to_n_primes" /\ arg = 100
    /\ q = [op |-> "nth_prime", arg |-> 99, res |-> Some(541)]

(***************************************************************************)
(* C7.  Sieve::to_limit(L).limit() is a multiple of 240 with               *)
(* L < limit() <= L + 240.                                                 *)
(***************************************************************************)
C7_LimitCoversRequest ==
    (pc = "built" /\ ctor = "to_limit") =>
        /\ Sieve_limit % MODULUS = 0
        /\ arg < Sieve_limit
        /\ Sieve_limit <= arg + MODULUS
        /\ q.op = "limit" => q.res = Some(MODULUS * (arg \div MODULUS + 1))

\* to_limit(240).limit() has returned 480.
C7_Witness ==
    /\ ctor = "to_limit" /\ arg = 240
    /\ q = [op |-> "limit", arg |-> 0, res |-> Some(480)]

largest_prime_held == LET all == collect(Sieve_iter) IN all[Len(all)]

single_segment_sieve ==
    LET seg_len == lim \div MODULUS + 1
    IN  run_segments(0, SieveIterator_new(small_primes), <<>>, first_segment(seg_len),
                     <<>>, seg_len, lim, small_primes)

(***************************************************************************)
(* C10.  When segmented_sieve returns, the vector it built segment by      *)
(* segment is, word for word, the one that sieving the same range as one   *)
(* single segment builds, for every limit and every segment length.        *)
(***************************************************************************)
C10_SegmentsEqualSingleSegment ==
    pc = "counts" => segments = single_segment_sieve

\* A sieve of three words has been built in three segments of one word.
C10_Witness ==
    /\ pc = "counts" /\ SEGMENT_LEN = 1 /\ Len(segments) = 3
    /\ \A i \in 1..3 : segments[i] # {} /\ segments[i] # ALL_ONES

(***************************************************************************)
(* The components on their own.  Each of the specifications below drives   *)
(* one component of the crate through its public functions, on inputs the  *)
(* segmented sieve never hands it; the variables it has no use for are     *)
(* held at the values below.                                               *)
(***************************************************************************)
\* The locals of segmented_sieve that a component specification leaves out.
IdleBuild ==
    /\ SEGMENT_LEN = 1
    /\ limit = 0
    /\ lim = 0
    /\ small_primes = <<>>
    /\ small_primes_iter = SieveIterator_new(<<>>)
    /\ segments = <<>>
    /\ low = 0
    /\ j = 0

\* No Sieve has been built.
IdleSieve ==
    /\ primes = <<>>
    /\ counts = <<>>
    /\ cursor = NoCursor

\* n is divisible by none of 2, 3, 5.
Coprime30(n) == n % 2 # 0 /\ n % 3 # 0 /\ n % 5 # 0

\* The sum of the entries from..to of a sequence of numbers.
RECURSIVE SumSeq(_, _, _)
SumSeq(s, from, to) == IF from > to THEN 0 ELSE s[from] + SumSeq(s, from + 1, to)

(***************************************************************************)
(* wheel.rs on its own: Wheel30::new(num, mult), then a caller that adds   *)
(* each next_diff() to an index starting at num * mult, as the loops of    *)
(* segsieve.rs do.                                                         *)
(***************************************************************************)
\* Largest num and mult handed to Wheel30::new.
MaxWheelNum == 31
MaxWheelMult == 31
\* Number of next_diff() calls followed.
MaxWheelSteps == 18

\* Wheel30::new(num, mult) has returned, or has hit unreachable!().  arg is
\* <<num, mult>>; next_indices holds the one (index, wheel) pair.
WheelInit ==
    /\ ctor = "Wheel30::new"
    /\ arg \in (1..MaxWheelNum) \X (1..MaxWheelMult)
    /\ pc = IF wheel_unreachable(arg[2]) THEN "panicked" ELSE "wheel"
    /\ next_indices = IF wheel_unreachable(arg[2]) THEN <<>>
                      ELSE <<[index |-> arg[1] * arg[2],
                              wheel |-> Wheel30_new(arg[1], arg[2])]>>
    /\ yielded = <<>>
    /\ exhausted = FALSE
    /\ sieve = <<>>
    /\ iter = SieveIterator_new(<<>>)
    /\ segment = <<>>
    /\ q = NoQuery
    /\ IdleBuild
    /\ IdleSieve

\* index += wheel.next_diff(); yielded records the value returned.
WheelNextDiff ==
    /\ pc = "wheel"
    /\ Len(yielded) < MaxWheelSteps
    /\ LET e == next_indices[1]
       IN  /\ yielded' = Append(yielded, next_diff(e.wheel))
           /\ next_indices' = <<[index |-> e.index + next_diff(e.wheel),
                                 wheel |-> wheel_advance(e.wheel)]>>
    /\ UNCHANGED <<ctor, arg, SEGMENT_LEN, pc, limit, lim, sieve, iter, small_primes,
                   small_primes_iter, segment, segments, low, j, primes, counts,
                   cursor, exhausted, q>>

WheelNext == WheelNextDiff

SpecWheel == WheelInit /\ [][WheelNext]_vars

\* The least m' > m that is coprime to 30.
next_coprime(m) ==
    CHOOSE c \in (m + 1)..(m + WHEEL_MOD) :
        Coprime30(c) /\ \A k \in (m + 1)..(c - 1) : ~Coprime30(k)

(***************************************************************************)
(* C11.  For num and mult coprime to 30, after Wheel30::new(num, mult) the *)
(* values of next_diff(), added one after the other to num * mult, give    *)
(* num * m' for the successive m' > mult coprime to 30: each step lands on *)
(* num times the next coprime multiplier, none left out, none repeated;    *)
(* the differences repeat with period 8 and any 8 successive ones sum to   *)
(* 30 * num, the wheel being back in its first state after every 8 calls.  *)
(***************************************************************************)
C11_WheelEnumeratesCoprimeMultiples ==
    (ctor = "Wheel30::new" /\ Coprime30(arg[1]) /\ Coprime30(arg[2])) =>
        LET num == arg[1]
            mult == arg[2]
            n == Len(yielded)
            multiple(i) == num * mult + SumSeq(yielded, 1, i)
        IN  /\ pc = "wheel"
            /\ next_indices[1].index = multiple(n)
            /\ \A i \in 1..n :
                   multiple(i) = num * next_coprime(multiple(i - 1) \div num)
            /\ \A i \in 1..(n - NUM_DIFFS) : yielded[i + NUM_DIFFS] = yielded[i]
            /\ \A i \in 0..(n - NUM_DIFFS) :
                   SumSeq(yielded, i + 1, i + NUM_DIFFS) = WHEEL_MOD * num
            /\ n % NUM_DIFFS = 0 => next_indices[1].wheel = Wheel30_new(num, mult)

\* Wheel30::new(13, 29) has gone twice round: 16 differences, the index at
\* 13 * (29 + 60).
C11_Witness ==
    /\ ctor = "Wheel30::new" /\ arg = <<13, 29>>
    /\ Len(yielded) = 16
    /\ next_indices[1].index = 13 * 89

(***************************************************************************)
(* C12.  The wheel of base 7 starting at the multiple 77 = 7 * 11, that is *)
(* Wheel30::new(7, 11), its starting offset taken from mult % 30, yields   *)
(* the differences 14, 28, 14, 28, 42, 14, 42, 28, 14.                     *)
(***************************************************************************)
C12_WheelSevenFromSeventySeven ==
    (ctor = "Wheel30::new" /\ arg = <<7, 11>>) =>
        LET gaps == <<14, 28, 14, 28, 42, 14, 42, 28, 14>>
        IN  /\ pc = "wheel"
            /\ \A i \in 1..Len(yielded) : i <= Len(gaps) => yielded[i] = gaps[i]

\* The ninth difference of Wheel30::new(7, 11) has been returned.
C12_Witness ==
    /\ ctor = "Wheel30::new" /\ arg = <<7, 11>>
    /\ Len(yielded) = 9 /\ yielded[9] = 14
    /\ next_indices[1].index = 77 + 224

(***************************************************************************)
(* segment.rs on its own: one call of get, set_off or set_on on a segment. *)
(***************************************************************************)
\* Largest segment, in words, handed to the codec.
MaxCodecLen == 2
\* How far past the end of the segment the indices handed to it go.
MaxCodecOver == 30

\* Words every sequence of the component specifications is built from: 0,
\* !0, the literal of small_primes, and the two end bits.
BaseWords == {{}, ALL_ONES, SIEVE0, {0, WORD_BITS - 1}}

\* One-word segments: the above, each single bit, and !0 less each bit.
SingleWords ==
    BaseWords \cup {{b} : b \in ALL_ONES} \cup {ALL_ONES \ {b} : b \in ALL_ONES}

\* The segments handed to the codec.
CodecSegments ==
    {<<w>> : w \in SingleWords}
    \cup UNION {[1..n -> BaseWords] : n \in 2..MaxCodecLen}

\* A segment has been allocated and filled; no call made yet.
CodecInit ==
    /\ ctor = "segment"
    /\ arg = 0
    /\ pc = "codec"
    /\ segment \in CodecSegments
    /\ q = NoQuery
    /\ next_indices = <<>>
    /\ yielded = <<>>
    /\ exhausted = FALSE
    /\ sieve = <<>>
    /\ iter = SieveIterator_new(<<>>)
    /\ IdleBuild
    /\ IdleSieve

\* The indices handed to the codec: the segment and a little past its end.
CodecArgs == 0..(MODULUS * Len(segment) + MaxCodecOver - 1)

\* get(&segment, idx)
CodecGet ==
    /\ pc = "codec"
    /\ q = NoQuery
    /\ \E idx \in CodecArgs :
           IF codec_panics(segment, idx)
           THEN /\ q' = [op |-> "get", arg |-> idx, res |-> Panic]
                /\ pc' = "panicked"
           ELSE /\ q' = [op |-> "get", arg |-> idx, res |-> Ok(get(segment, idx))]
                /\ pc' = pc
    /\ UNCHANGED <<ctor, arg, SEGMENT_LEN, limit, lim, sieve, iter, small_primes,
                   small_primes_iter, segment, segments, next_indices, low, j, primes,
                   counts, cursor, yielded, exhausted>>

\* set_off(&mut segment, idx)
CodecSetOff ==
    /\ pc = "codec"
    /\ q = NoQuery
    /\ \E idx \in CodecArgs :
           IF codec_panics(segment, idx)
           THEN /\ q' = [op |-> "set_off", arg |-> idx, res |-> Panic]
                /\ pc' = "panicked"
                /\ segment' = segment
           ELSE /\ q' = [op |-> "set_off", arg |-> idx, res |-> None]
                /\ pc' = pc
                /\ segment' = set_off(segment, idx)
    /\ UNCHANGED <<ctor, arg, SEGMENT_LEN, limit, lim, sieve, iter, small_primes,
                   small_primes_iter, segments, next_indices, low, j, primes, counts,
                   cursor, yielded, exhausted>>

\* set_on(&mut segment, idx)
CodecSetOn ==
    /\ pc = "codec"
    /\ q = NoQuery
    /\ \E idx \in CodecArgs :
           IF codec_panics(segment, idx)
           THEN /\ q' = [op |-> "set_on", arg |-> idx, res |-> Panic]
                /\ pc' = "panicked"
                /\ segment' = segment
           ELSE /\ q' = [op |-> "set_on", arg |-> idx, res |-> None]
                /\ pc' = pc
                /\ segment' = set_on(segment, idx)
    /\ UNCHANGED <<ctor, arg, SEGMENT_LEN, limit, lim, sieve, iter, small_primes,
                   small_primes_iter, segments, next_indices, low, j, primes, counts,
                   cursor, yielded, exhausted>>

CodecNext ==
    \/ CodecGet
    \/ CodecSetOff
    \/ CodecSetOn

SpecCodec == CodecInit /\ [][CodecNext]_vars

\* The residues of MODULUS the table POS flags as representable.
REPRESENTABLE == {r \in 0..(MODULUS - 1) : POS[r + 1][1]}

(***************************************************************************)
(* C13.  For an index idx inside the segment: once set_off(idx) has        *)
(* returned, get(idx) is false; once set_on(idx) has returned, get(idx) is *)
(* true exactly when idx is divisible by none of 2, 3, 5; get of an idx    *)
(* divisible by 2, 3 or 5 returns false.  The representable residues of    *)
(* 240 are the 64 coprime to 30.                                           *)
(***************************************************************************)
C13_GetAfterSet ==
    (ctor = "segment" /\ q.op # "none" /\ q.arg < MODULUS * Len(segment)) =>
        /\ pc = "codec"
        /\ q.op = "set_off" => get(segment, q.arg) = FALSE
        /\ q.op = "set_on" => get(segment, q.arg) = Coprime30(q.arg)
        /\ (q.op = "get" /\ ~Coprime30(q.arg)) => q.res = Ok(FALSE)
        /\ Cardinality(REPRESENTABLE) = WORD_BITS
        /\ REPRESENTABLE = {r \in 0..(MODULUS - 1) : Coprime30(r)}

\* set_on(19) has returned on a one-word segment whose only set bit is now
\* bit 5, and get(19) is true.
C13_Witness ==
    /\ ctor = "segment" /\ pc = "codec"
    /\ q.op = "set_on" /\ q.arg = 19
    /\ segment = <<{5}>>
    /\ get(segment, 19)

(***************************************************************************)
(* C19.  A call of set_on(idx) or set_off(idx) changes at most the one bit *)
(* idx addresses: every other bit of that word and every other word is as  *)
(* before, the length too, and when idx is divisible by 2, 3 or 5 the      *)
(* whole segment is as before.                                             *)
(***************************************************************************)
C19_SetChangesOneBit ==
    [][(ctor = "segment" /\ q'.op \in {"set_on", "set_off"}) =>
          /\ Len(segment') = Len(segment)
          /\ \A x \in 1..Len(segment) : \A b \in ALL_ONES :
                 ((b \in segment'[x]) # (b \in segment[x])) =>
                     /\ x - 1 = q'.arg \div MODULUS
                     /\ OFFSETS[b + 1] = q'.arg % MODULUS
          /\ ~Coprime30(q'.arg) => segment' = segment]_vars

\* set_off(240 + 19) has cleared bit 5 of the second word and nothing else.
C19_Witness ==
    /\ ctor = "segment" /\ pc = "codec"
    /\ q.op = "set_off" /\ q.arg = 259
    /\ segment = <<SIEVE0, ALL_ONES \ {5}>>

(***************************************************************************)
(* iterator.rs on its own, and with segment.rs: a decoder runs over a      *)
(* sequence of words to its end, and each value it yields is set_on in a   *)
(* copy that started all zero.                                             *)
(***************************************************************************)
\* Largest number of words handed to the decoder.
MaxDecodeLen == 3

\* The words of test_small and test_medium (iterator.rs:88, 96), digit by
\* digit, most significant bit first.
TEST_SMALL_DIGITS ==
    <<1,0,0,1,0,0,1,1,0,0,1,0,1,1,0,0,0,0,0,0,0,1,0,1,1,0,1,0,0,1,0>>
TEST_MEDIUM_DIGITS ==
    <<1,1,0,0,1,0,1,1,0,0,0,0,0,0,0,1,0,1,1,0,1,0,0,1,0>>

\* The u64 whose binary digits are given, most significant first.
word_of_digits(digits) ==
    {b \in 0..(Len(digits) - 1) : digits[Len(digits) - b] = 1}

TEST_SMALL == word_of_digits(TEST_SMALL_DIGITS)
TEST_MEDIUM == word_of_digits(TEST_MEDIUM_DIGITS)

\* The sequences of words handed to the decoder, the empty one among them.
DecoderInputs ==
    UNION {[1..n -> BaseWords \cup {TEST_SMALL, TEST_MEDIUM}] : n \in 0..MaxDecodeLen}

\* SieveIterator::new(&sieve) has returned; the copy is all zero.
DecoderInit ==
    /\ ctor = "SieveIterator::new"
    /\ arg = 0
    /\ pc = "decode"
    /\ sieve \in DecoderInputs
    /\ iter = SieveIterator_new(sieve)
    /\ segment = [i \in 1..Len(sieve) |-> {}]
    /\ yielded = <<>>
    /\ exhausted = FALSE
    /\ q = NoQuery
    /\ next_indices = <<>>
    /\ IdleBuild
    /\ IdleSieve

\* One call of next() on the decoder, until it has returned None; a value
\* it yields is handed to set_on on the copy.
DecoderStep ==
    /\ pc = "decode"
    /\ ~exhausted
    /\ LET r == SieveIterator_next(iter, sieve)
       IN  /\ iter' = r.it
           /\ exhausted' = (r.out.tag = "None")
           /\ yielded' = IF r.out.tag = "Some" THEN Append(yielded, r.out.val) ELSE yielded
           /\ IF r.out.tag = "Some" /\ codec_panics(segment, r.out.val)
              THEN pc' = "panicked" /\ segment' = segment
              ELSE /\ pc' = pc
                   /\ segment' = IF r.out.tag = "Some"
                                 THEN set_on(segment, r.out.val)
                                 ELSE segment
    /\ UNCHANGED <<ctor, arg, SEGMENT_LEN, limit, lim, sieve, small_primes,
                   small_primes_iter, segments, next_indices, low, j, primes, counts,
                   cursor, q>>

DecoderNext == DecoderStep

SpecDecoder == DecoderInit /\ [][DecoderNext]_vars

\* The numbers a sequence of words encodes: 240 * i + OFFSETS[b] for each
\* set bit b of word i.
encoded(words) ==
    {MODULUS * (i - 1) + OFFSETS[b + 1] : <<i, b>> \in
        {<<i, b>> \in (1..Len(words)) \X ALL_ONES : b \in words[i]}}

(***************************************************************************)
(* C14.  Over any sequence of words the decoder yields the values          *)
(* 240 * i + OFFSETS[b], b a set bit of word i, in strictly increasing     *)
(* order: the n-th value yielded is the n-th smallest of them; once all    *)
(* have been yielded the next call returns None, and when None has been    *)
(* returned each has been yielded once.  Zero words, wherever they stand,  *)
(* add 240 to the base and yield nothing; an empty or all-zero sequence    *)
(* yields nothing.                                                         *)
(***************************************************************************)
C14_DecoderYieldsEncoded ==
    ctor = "SieveIterator::new" =>
        LET n == Len(yielded)
            all == encoded(sieve)
        IN  /\ n >= 1 =>
                   /\ yielded[n] \in all
                   /\ Cardinality({v \in all : v <= yielded[n]}) = n
            /\ n >= 2 => yielded[n - 1] < yielded[n]
            /\ n = Cardinality(all) => SieveIterator_next(iter, sieve).out = None
            /\ exhausted => n = Cardinality(all)
            /\ (exhausted /\ \A i \in 1..Len(sieve) : sieve[i] = {}) => yielded = <<>>

\* test_medium: the decoder has run over the three words, the middle one
\* zero, to its end.
C14_Witness ==
    /\ ctor = "SieveIterator::new" /\ exhausted
    /\ sieve = <<TEST_SMALL, {}, TEST_MEDIUM>>
    /\ yielded = <<7, 17, 23, 29, 37, 67, 71, 77, 89, 91, 103, 113,
                   487, 497, 503, 509, 517, 547, 551, 557, 569, 571>>

(***************************************************************************)
(* C15.  Codec and decoder agree: when the decoder has run to its end,     *)
(* the all-zero copy in which set_on was called for every value yielded is *)
(* the original, bit for bit, and get(v) on the original is true exactly   *)
(* for the values v yielded; before that the copy holds no bit the         *)
(* original lacks.  For each bit b, index_for of the residue OFFSETS[b]    *)
(* is representable with mask 1 << b.                                      *)
(***************************************************************************)
C15_CodecDecoderRoundTrip ==
    ctor = "SieveIterator::new" =>
        /\ pc = "decode"
        /\ Len(segment) = Len(sieve)
        /\ \A i \in 1..Len(sieve) : segment[i] \subseteq sieve[i]
        /\ exhausted =>
               /\ segment = sieve
               /\ \A v \in 0..(MODULUS * Len(sieve) - 1) :
                      get(sieve, v) <=> \E i \in 1..Len(yielded) : yielded[i] = v
        /\ \A b \in ALL_ONES : index_for(OFFSETS[b + 1]) = <<TRUE, 0, b>>

\* The copy of a sieve with a zero word in the middle has been rebuilt.
C15_Witness ==
    /\ ctor = "SieveIterator::new" /\ exhausted
    /\ sieve = <<SIEVE0, {}, ALL_ONES>>
    /\ segment = <<SIEVE0, {}, ALL_ONES>>
    /\ Len(yielded) = Cardinality(SIEVE0) + WORD_BITS

(***************************************************************************)
(* sieve/primefuncs.rs and primefuncs.rs: the functions over a finished    *)
(* Sieve.  The Sieve is built by to_limit; a behaviour follows one call.   *)
(***************************************************************************)
\* The largest number of words of the Sieves the functions are called on.
MaxFunctionWords == 3
\* How far above limit()^2 the arguments handed to factorise go.
FactoriseSpan == 40

\* The limits handed to to_limit: 100, the limit of the doc-tests, and the
\* limits one word further each.
FunctionLimits == {100 + MODULUS * k : k \in 0..(MaxFunctionWords - 1)}

\* Result<Vec<(u64, u64)>, (u64, Vec<(u64, u64)>)>
FactorsOk(factors) == [tag |-> "Ok", rem |-> 1, factors |-> factors]
FactorsErr(rem, factors) == [tag |-> "Err", rem |-> rem, factors |-> factors]

\* divide_out dividing once only, whatever the power of p in n.
RECURSIVE divide_out_once(_, _, _)
divide_out_once(n, p, count) ==
    IF n % p = 0 /\ count = 0 THEN divide_out_once(n \div p, p, count + 1)
    ELSE [n |-> n, count |-> count]

\* while n % p == 0 { n /= p; count += 1; }
RECURSIVE divide_out(_, _, _)
divide_out(n, p, count) ==
    IF n % p = 0 THEN divide_out(n \div p, p, count + 1)
    ELSE [n |-> n, count |-> count]

\* One iteration of `for p in self.iter()` of factorise on st = [c: the
\* iterator, n: what is left of n, factors: the factors pushed, done: the
\* loop has ended, the iterator at its end or by break].
factorise_step(st) ==
    LET r == Sieve_next(st.c)
        p == r.out.val
    IN  IF st.done THEN st
        ELSE IF r.out.tag = "None" \/ p * p > st.n THEN [st EXCEPT !.done = TRUE]
        ELSE LET d == divide_out(st.n, p, 0)
             IN  [c |-> r.it,
                  n |-> d.n,
                  factors |-> IF d.count > 0 THEN Append(st.factors, <<p, d.count>>)
                              ELSE st.factors,
                  done |-> FALSE]

\* 2^e iterations of that loop, or fewer when it ends before (the halving
\* keeps the evaluation shallow).
RECURSIVE factorise_iterations(_, _)
factorise_iterations(st, e) ==
    IF st.done THEN st
    ELSE IF e = 0 THEN factorise_step(st)
    ELSE factorise_iterations(factorise_iterations(st, e - 1), e - 1)

\* The iterations of that loop up to its end.
RECURSIVE factorise_run(_, _)
factorise_run(st, e) ==
    LET after == factorise_iterations(st, e)
    IN  IF after.done THEN after ELSE factorise_run(after, e + 1)

\* The whole loop `for p in self.iter()` of factorise.
factorise_loop(n) ==
    factorise_run([c |-> Sieve_iter, n |-> n, factors |-> <<>>, done |-> FALSE], 0)

\* leftover_too_large comparing with limit() in place of its square.
leftover_above_limit(n) == Sieve_limit < n

\* self.limit().saturating_mul(self.limit()) < n
leftover_too_large(n) == Sieve_limit * Sieve_limit < n

\* Sieve::factorise(&self, n)
factorise(n) ==
    IF n = 0 THEN FactorsErr(0, <<>>)
    ELSE IF n = 1 THEN FactorsOk(<<>>)
    ELSE LET l == factorise_loop(n)
         IN  IF l.n # 1
             THEN IF leftover_too_large(l.n)
                  THEN FactorsErr(l.n, l.factors)
                  ELSE FactorsOk(Append(l.factors, <<l.n, 1>>))
             ELSE FactorsOk(l.factors)

\* Sieve::is_prime(&self, n) -> bool of primefuncs.rs: Ok(b), or Panic for
\* panic!("Too large to test for primality").
is_prime_bool(n) ==
    IF n \in {2, 3, 5} THEN Ok(TRUE)
    ELSE IF n < Sieve_limit THEN Ok(get(primes, n))
    ELSE IF n <= Sieve_limit * Sieve_limit THEN Ok(TRUE)
    ELSE Panic

\* Sieve::to_limit(arg) has returned.
FunctionsInit ==
    /\ ctor = "to_limit"
    /\ arg \in FunctionLimits
    /\ SEGMENT_LEN \in 1..MaxSegmentLen
    /\ pc = "built"
    /\ primes = segmented_sieve(arg, SEGMENT_LEN)
    /\ counts = prefix_counts(primes, 1, 0)
    /\ cursor = NoCursor
    /\ q = NoQuery
    /\ limit = arg
    /\ lim = rounded_limit(arg)
    /\ sieve = <<>>
    /\ iter = SieveIterator_new(<<>>)
    /\ small_primes = <<>>
    /\ small_primes_iter = SieveIterator_new(<<>>)
    /\ segment = <<>>
    /\ segments = <<>>
    /\ next_indices = <<>>
    /\ low = 0
    /\ j = 0
    /\ yielded = <<>>
    /\ exhausted = FALSE

\* The arguments the model hands to factorise: the small numbers, the
\* numbers of the doc-test, products about limit(), and the numbers about
\* limit()^2.
FactoriseArgs ==
    (0..30)
    \cup {89 * 97, 8 * 9 * 5, 2 * 3 * 5 * 991, 2 * 3 * 5 * 991 * 991}
    \cup {a * b : a \in {2, 239, 241, 251}, b \in {239, 241, 251, 991}}
    \cup ((Sieve_limit * Sieve_limit - QSpan)..(Sieve_limit * Sieve_limit + FactoriseSpan))
    \cup {2 * n : n \in (Sieve_limit * Sieve_limit)..(Sieve_limit * Sieve_limit + FactoriseSpan)}

\* A caller asks factorise(n).
FactoriseQuery ==
    /\ pc = "built"
    /\ q = NoQuery
    /\ \E n \in FactoriseArgs : q' = [op |-> "factorise", arg |-> n, res |-> factorise(n)]
    /\ UNCHANGED <<ctor, arg, SEGMENT_LEN, pc, build_vars, primes, counts, cursor,
                   yielded, exhausted>>

\* A caller asks the is_prime of primefuncs.rs.
IsPrimeBoolQuery ==
    /\ pc = "built"
    /\ q = NoQuery
    /\ \E n \in IsPrimeArgs :
           /\ q' = [op |-> "is_prime_bool", arg |-> n, res |-> is_prime_bool(n)]
           /\ pc' = IF is_prime_bool(n) = Panic THEN "panicked" ELSE pc
    /\ UNCHANGED <<ctor, arg, SEGMENT_LEN, build_vars, primes, counts, cursor,
                   yielded, exhausted>>

FunctionsNext ==
    \/ FactoriseQuery
    \/ IsPrimeBoolQuery

SpecFunctions == FunctionsInit /\ [][FunctionsNext]_vars

(***************************************************************************)
(* Reference notions for the claims on factorise.                          *)
(***************************************************************************)
\* No argument handed to factorise exceeds MaxDivisor^2.
MaxDivisor == 5500

\* The least divisor of n >= 2 other than 1: a prime number.
least_divisor(n) == Min({d \in 2..MaxDivisor : d * d <= n /\ n % d = 0} \cup {n})

\* n is a prime number (n at most MaxDivisor^2).
is_prime_number(n) == n >= 2 /\ least_divisor(n) = n

\* p^e
RECURSIVE power(_, _)
power(p, e) == IF e = 0 THEN 1 ELSE p * power(p, e - 1)

\* The product of p^e over the pairs <<p, e>> of factors, from the i-th on.
RECURSIVE product_of(_, _)
product_of(factors, i) ==
    IF i > Len(factors) THEN 1
    ELSE power(factors[i][1], factors[i][2]) * product_of(factors, i + 1)

\* The number of prime factors of n, counted with multiplicity, larger than x.
RECURSIVE large_factor_count(_, _)
large_factor_count(n, x) ==
    IF n = 1 THEN 0
    ELSE LET d == least_divisor(n)
         IN  (IF d > x THEN 1 ELSE 0) + large_factor_count(n \div d, x)

\* What is left of n once every prime factor smaller than x is divided out.
RECURSIVE cofactor(_, _)
cofactor(n, x) ==
    IF n = 1 THEN 1
    ELSE LET d == least_divisor(n)
         IN  IF d < x THEN cofactor(n \div d, x) ELSE n

(***************************************************************************)
(* C16.  factorise(n) for n >= 1 returns Ok for every n not greater than   *)
(* limit()^2.  Whenever it returns Ok(fs), fs lists distinct primes in     *)
(* strictly increasing order, each with an exponent >= 1, and the product  *)
(* of p^e over fs is n (fs is empty for n = 1).  When it returns           *)
(* Err((r, fs)), the product of p^e over fs times r is n.                  *)
(***************************************************************************)
C16_FactoriseProduct ==
    (pc = "built" /\ q.op = "factorise" /\ q.arg >= 1) =>
        LET fs == q.res.factors
        IN  /\ q.arg <= Sieve_limit * Sieve_limit => q.res.tag = "Ok"
            /\ q.res.tag = "Ok" =>
                   /\ \A i \in 1..Len(fs) :
                          /\ is_prime_number(fs[i][1])
                          /\ fs[i][2] >= 1
                          /\ i > 1 => fs[i - 1][1] < fs[i][1]
                   /\ product_of(fs, 1) = q.arg
                   /\ q.arg = 1 => fs = <<>>
            /\ q.res.tag = "Err" => product_of(fs, 1) * q.res.rem = q.arg

\* The doc-test: to_limit(100).factorise(8 * 9 * 5) has returned
\* Ok([(2, 3), (3, 2), (5, 1)]).
C16_Witness ==
    /\ ctor = "to_limit" /\ arg = 100 /\ pc = "built"
    /\ q = [op |-> "factorise", arg |-> 360,
            res |-> FactorsOk(<<<<2, 3>>, <<3, 2>>, <<5, 1>>>>)]

C18_BoolIsPrimeByTrialDivision ==
    (pc = "built" /\ q.op = "is_prime_bool") =>
        /\ (Sieve_limit <= q.arg /\ q.arg <= Sieve_limit * Sieve_limit) =>
               q.res = Ok(is_prime_number(q.arg))
        /\ (arg = 100 /\ q.arg \in {491, 499}) => q.res = Ok(TRUE)
        /\ (arg = 100 /\ q.arg \in {493, 495, 497}) => q.res = Ok(FALSE)

(***************************************************************************)
(* The constructor on its own: the steps of small_primes and               *)
(* segmented_sieve up to the finished Sieve, no caller after it.           *)
(***************************************************************************)
BuildNext ==
    \/ SmallPrimesStep
    \/ PullPrime
    \/ SievePrime
    \/ StoreSegment
    \/ BuildCounts

SpecBuild == Init /\ [][BuildNext]_vars

\* The prime an entry of next_indices tracks: diffs[2] of its wheel is
\* 2 * num.
entry_prime(e) == e.wheel.diffs[3] \div 2

\* The least m coprime to 30 with p * m >= from.
least_multiplier(p, from) ==
    LET m0 == (from + p - 1) \div p
    IN  CHOOSE m \in m0..(m0 + WHEEL_MOD) :
            Coprime30(m) /\ \A k \in m0..(m - 1) : ~Coprime30(k)

\* The larger of two numbers.
Max2(a, b) == IF a >= b THEN a ELSE b

(***************************************************************************)
(* C20.  While the segment [low, high) is sieved, every tracked prime p    *)
(* whose turn has not come has a stored index i such that low + i is the   *)
(* least p * m >= max(p * p, low) with m coprime to 30, its wheel being    *)
(* the wheel of that m; this holds from the moment the prime is pushed.    *)
(* Once its turn is over, the same holds of high in place of low, which is *)
(* what the next segment starts from, and every p * m of [low, high) with  *)
(* m >= p coprime to 30 is off in the segment.  Hence, when the last       *)
(* segment is stored, every p * m below lim with m >= p coprime to 30 is   *)
(* off in the vector: none was skipped at a boundary.                      *)
(***************************************************************************)
C20_IndexIsNextMultiple ==
    /\ pc \in {"pull", "sieve"} =>
           \A k \in 1..Len(next_indices) :
               LET e == next_indices[k]
                   p == entry_prime(e)
                   done == pc = "sieve" /\ k <= j
                   from == IF done THEN high ELSE low
                   m == least_multiplier(p, Max2(p * p, from))
               IN  /\ from + e.index = p * m
                   /\ e.wheel = Wheel30_new(p, m)
                   /\ done =>
                          \A t \in Max2(p * p, low)..(high - 1) :
                              (t % p = 0 /\ Coprime30(t \div p)) =>
                                  ~get(segment, t - low)
    /\ pc = "counts" =>
           \A k \in 1..Len(next_indices) :
               LET p == entry_prime(next_indices[k])
               IN  \A t \in (p * p)..(lim - 1) :
                       (t % p = 0 /\ Coprime30(t \div p)) => ~get(segments, t)

\* The second one-word segment is about to be sieved: the index of 7 is
\* 7 * 37 - 240, that of 11 is 11 * 23 - 240.
C20_Witness ==
    /\ pc = "sieve" /\ j = 0 /\ SEGMENT_LEN = 1 /\ low = 240
    /\ Len(next_indices) >= 2
    /\ next_indices[1].index = 19
    /\ next_indices[2].index = 13

(***************************************************************************)
(* The constructor followed by a caller of nth_prime and num_primes only.  *)
(***************************************************************************)
NthNext ==
    \/ BuildNext
    \/ NthPrimeQuery
    \/ NumPrimesQuery

SpecNth == Init /\ [][NthNext]_vars

\* A step of the constructor pushes an entry onto next_indices.
prime_added == Len(next_indices') = Len(next_indices) + 1

\* The prime of the entry that step pushes.
added_prime == entry_prime(next_indices'[Len(next_indices')])

(***************************************************************************)
(* C21 as stated.  A sieving prime p is only tracked from the segment      *)
(* that contains p * p: when a prime is added while the segment            *)
(* [low, high) is processed, low <= p * p < high.                          *)
(***************************************************************************)
C21_TrackedFromSegmentOfSquare ==
    [][prime_added => (low <= added_prime * added_prime
                       /\ added_prime * added_prime < high)]_vars

(***************************************************************************)
(* C21 amended.  When a prime p is added while the segment [low, high) is  *)
(* processed, low <= p * p; the loop that adds primes goes on to the next  *)
(* prime exactly when p * p < high, so p * p < high holds of every prime   *)
(* added in a pass but the last, and the prime that ends the pass is       *)
(* tracked although p * p >= high.                                         *)
(***************************************************************************)
C21_TrackedUpToFirstSquareBeyond ==
    [][prime_added => (/\ low <= added_prime * added_prime
                       /\ pc' = "pull" <=> added_prime * added_prime < high
                       /\ pc' = "sieve" <=> added_prime * added_prime >= high)]_vars

\* The first pass over a one-word segment has ended: 7, 11 and 13 were
\* added with their squares below 240, and 17 with 289 >= 240.
C21_Witness ==
    /\ pc = "sieve" /\ SEGMENT_LEN = 1 /\ low = 0 /\ high = 240
    /\ Len(next_indices) = 4
    /\ entry_prime(next_indices[3]) = 13
    /\ entry_prime(next_indices[4]) = 17
    /\ next_indices[4].index = 289

(***************************************************************************)
(* small_primes(limit) on its own (segsieve.rs:16-51): the buffer is       *)
(* allocated, the decoder is created over it, and each step is one         *)
(* iteration of `for prime in iter`.  The decoder first leaves word 0 once *)
(* 241 * 241 < small_limit, a buffer of 243 words or more, which takes a   *)
(* limit of 58080^2 or more: the model's integers end below that, so the   *)
(* largest buffers are drawn by the value of `sqrt` (segsieve.rs:19) and   *)
(* the limit itself is not held.                                           *)
(***************************************************************************)
\* The limits 0..MaxSmallLimit are handed to small_primes.
MaxSmallLimit == 40
\* Half-width of the window of limits around 240^2, where the buffer grows
\* from one word to two.
SmallLimitSpan == 2
\* The length in words of the largest buffer.
MaxSmallWords == 243

\* The limit is beyond the integers of the model.
LimitNotHeld == -1

\* The limits handed to small_primes: the small ones, the window around
\* 240^2, 480^2 and that of test_small_primes.
SmallPrimesLimits ==
    (0..MaxSmallLimit)
    \cup ((MODULUS * MODULUS - SmallLimitSpan)..(MODULUS * MODULUS + SmallLimitSpan))
    \cup {4 * MODULUS * MODULUS, 1000000}

\* The inputs of the model: a limit with its `sqrt`, or the least `sqrt`
\* alone that gives a buffer of MaxSmallWords words.
SmallPrimesInputs ==
    {[limit |-> l, sqrt |-> Isqrt(l)] : l \in SmallPrimesLimits}
    \cup {[limit |-> LimitNotHeld, sqrt |-> MODULUS * (MaxSmallWords - 1)]}

\* small_primes has allocated its buffer and created its decoder; arg is
\* the value of `sqrt`.
SmallPrimesInit ==
    /\ ctor = "small_primes"
    /\ \E inp \in SmallPrimesInputs :
           /\ limit = inp.limit
           /\ arg = inp.sqrt
    /\ pc = "small_primes"
    /\ sieve = [ones_vec(arg \div MODULUS + 1) EXCEPT ![1] = SIEVE0]
    /\ iter = SieveIterator_new(sieve)
    /\ small_primes = <<>>
    /\ yielded = <<>>
    /\ exhausted = FALSE
    /\ q = NoQuery
    /\ next_indices = <<>>
    /\ segment = <<>>
    /\ SEGMENT_LEN = 1
    /\ lim = 0
    /\ small_primes_iter = SieveIterator_new(<<>>)
    /\ segments = <<>>
    /\ low = 0
    /\ j = 0
    /\ IdleSieve

\* One iteration of `for prime in iter`; yielded gathers the values the
\* decoder has returned, and when the loop ends the buffer is returned.
SmallPrimesIteration ==
    /\ pc = "small_primes"
    /\ \E seen \in sieve_as_read(sieve) :
       LET r == small_primes_iteration(iter, seen, sieve)
           out == SieveIterator_next(iter, seen).out
       IN  /\ iter' = r.it
           /\ sieve' = r.sieve
           /\ yielded' = IF out.tag = "Some" THEN Append(yielded, out.val) ELSE yielded
           /\ pc' = IF r.panic THEN "panicked"
                    ELSE IF r.done THEN "returned" ELSE "small_primes"
           /\ small_primes' = IF ~r.panic /\ r.done THEN r.sieve ELSE small_primes
    /\ UNCHANGED <<ctor, arg, SEGMENT_LEN, limit, lim, small_primes_iter, segment,
                   segments, next_indices, low, j, primes, counts, cursor, exhausted, q>>

SmallPrimesNext == SmallPrimesIteration

SpecSmallPrimes == SmallPrimesInit /\ [][SmallPrimesNext]_vars

\* The prime numbers below bound.
prime_numbers_below(bound) ==
    LET root == Isqrt(bound)
    IN  {n \in 2..(bound - 1) : \A d \in 2..root : d * d > n \/ n % d # 0}

\* The sequence s is strictly increasing.
Ascending(s) == \A i \in 1..(Len(s) - 1) : s[i] < s[i + 1]

\* The set of the entries of the sequence s.
Range(s) == {s[i] : i \in 1..Len(s)}

(***************************************************************************)
(* C22.  The buffer small_primes(limit) returns decodes, in ascending      *)
(* order, to exactly the prime numbers p with                              *)
(* 7 <= p < 240 * (floor(sqrt(limit)) div 240 + 1): it holds every prime   *)
(* p >= 7 with p * p <= limit, no composite number and not 1.              *)
(***************************************************************************)
C22_SmallPrimesDecodeToPrimes ==
    pc = "returned" =>
        LET bound == MODULUS * (arg \div MODULUS + 1)
            decoded == decode_from(SieveIterator_new(small_primes), small_primes)
        IN  /\ limit # LimitNotHeld => arg = Isqrt(limit)
            /\ Len(small_primes) = arg \div MODULUS + 1
            /\ Ascending(decoded)
            /\ Range(decoded) = {p \in prime_numbers_below(bound) : p >= 7}
            /\ 1 \notin Range(decoded)
            /\ limit # LimitNotHeld =>
                   \A p \in 7..arg : (p \in prime_numbers_below(bound)) => p \in Range(decoded)

\* small_primes(1000000) has returned, the buffer of test_small_primes: five
\* words, whose last prime is 1193.
C22_Witness ==
    /\ pc = "returned" /\ ctor = "small_primes" /\ limit = 1000000
    /\ Len(small_primes) = 5
    /\ get(small_primes, 1193) /\ ~get(small_primes, 1199)
    /\ ~get(small_primes, 37 * 31)

MaxIndexWords == 4

\* The words of the store: empty, one value, the two ends, three values.
IndexWords == {{}, {5}, {0, WORD_BITS - 1}, {1, 2, 3}}

\* The stores.
IndexStores == UNION {[1..n -> IndexWords] : n \in 1..MaxIndexWords}

\* A Sieve { primes, counts } as to_limit builds it from the store.
IndexInit ==
    /\ ctor = "Sieve"
    /\ arg = 0
    /\ pc = "built"
    /\ primes \in IndexStores
    /\ counts = prefix_counts(primes, 1, 0)
    /\ cursor = NoCursor
    /\ yielded = <<>>
    /\ exhausted = FALSE
    /\ q = NoQuery
    /\ sieve = <<>>
    /\ iter = SieveIterator_new(<<>>)
    /\ segment = <<>>
    /\ next_indices = <<>>
    /\ IdleBuild

IndexNext ==
    \/ NthPrimeQuery
    \/ NumPrimesQuery

SpecIndex == IndexInit /\ [][IndexNext]_vars

\* The prefix count before word idx (0-indexed).
count_before(idx) == IF idx = 0 THEN 0 ELSE counts[idx]

\* The word (0-indexed) that holds the k-th value of the store.
holds_kth(idx, k) == count_before(idx) <= k /\ k < counts[idx + 1]

(***************************************************************************)
(* C24.  In nth_prime(n) with 3 <= n < num_primes() and k = n - 3,         *)
(* whichever matching entry the binary search reports, the word index      *)
(* chosen is the one idx with count_before(idx) <= k < counts[idx], also   *)
(* when several consecutive entries of counts equal k (empty words); the   *)
(* advance past the entries equal to k stays within counts, the in-word    *)
(* skip k - (counts[idx] - popcount(word idx)) is at least 0 and less than *)
(* popcount(word idx), and the value returned is the n-th of iter().       *)
(***************************************************************************)
C24_WordIndexPastDuplicates ==
    pc = "built" =>
        /\ \A n \in 3..(num_primes - 1) :
               LET k == n - 3
               IN  \A found \in binary_search(k) :
                       LET idx == word_index(found, k)
                           skip == k - (counts[idx + 1] - count_ones(primes[idx + 1]))
                       IN  /\ found.ok => skip_equal(found.x, k) # -1
                           /\ idx >= 0 /\ idx < Len(counts)
                           /\ holds_kth(idx, k)
                           /\ \A other \in 0..(Len(counts) - 1) :
                                  holds_kth(other, k) => other = idx
                           /\ skip >= 0 /\ skip < count_ones(primes[idx + 1])
                           /\ prime_in_word(idx, k) = Some(collect(Sieve_iter)[n + 1])
        /\ (q.op = "nth_prime" /\ q.arg >= 3 /\ q.arg < num_primes) =>
               q.res = Some(collect(Sieve_iter)[q.arg + 1])

\* nth_prime(5) over the store <<{0, 63}, {}, {1, 2, 3}, {5}>>: counts is
\* <<2, 2, 5, 6>>, k = 2 is found at either of two entries, and the value
\* is the first of word 2, 480 + 7.
C24_Witness ==
    /\ pc = "built"
    /\ primes = <<{0, WORD_BITS - 1}, {}, {1, 2, 3}, {5}>>
    /\ counts = <<2, 2, 5, 6>>
    /\ Cardinality(binary_search(2)) = 2
    /\ q.op = "nth_prime" /\ q.arg = 5
    /\ q.res = Some(2 * MODULUS + 7)

(***************************************************************************)
(* The constructor under the scheduling of sequential code: it takes its   *)
(* next step as long as it has one.  This is WF_vars(BuildNext) with       *)
(* ENABLED <<BuildNext>>_vars written out as BuildEnabled: each position   *)
(* of the constructor has a step, and each step changes pc, j or an        *)
(* iterator.                                                               *)
(***************************************************************************)
\* The constructor has a step to take.
BuildEnabled == pc \in {"small_primes", "pull", "sieve", "counts"}

BuildFairness == []<>(~BuildEnabled) \/ []<><<BuildNext>>_vars

SpecBuildFair == Init /\ [][BuildNext]_vars /\ BuildFairness

\* What segmented_sieve holds in `segments` at each point, lim / 240 words
\* when it returns.
words_stored ==
    /\ lim = MODULUS * (limit \div MODULUS + 1)
    /\ pc \in {"pull", "sieve"} =>
           /\ low <= lim
           /\ low % SEGMENT_SIZE(SEGMENT_LEN) = 0
           /\ Len(segments) = low \div MODULUS
    /\ pc \in {"counts", "built"} =>
           /\ low > lim
           /\ Len(segments) = lim \div MODULUS
           /\ Len(segments) >= 1
    /\ pc = "built" =>
           /\ primes = segments
           /\ Len(counts) = Len(primes)
           /\ Len(counts) >= 1

(***************************************************************************)
(* C25.  For every limit L, segmented_sieve(L) terminates and returns      *)
(* exactly lim / 240 words, lim = 240 * (floor(L / 240) + 1), also when    *)
(* lim is a multiple of the segment size and `low <= lim` lets one more    *)
(* pass of length zero run, which appends no word; the store of the Sieve  *)
(* is never empty, so num_primes() never indexes an empty counts.          *)
(***************************************************************************)
C25_TerminatesWithLimWords == [](words_stored) /\ <>(pc = "built")

\* The pass of length zero of segmented_sieve(479) with segments of two
\* words: low = lim = 480, and the two words are stored already.
C25_Witness ==
    /\ pc = "sieve" /\ SEGMENT_LEN = 2 /\ limit = 479
    /\ low = lim /\ segment_size = 0
    /\ Len(next_indices) > 0 /\ j = Len(next_indices)
    /\ Len(segments) = 2

(***************************************************************************)
(* The constructor near the top of the machine word.  u64 ends at          *)
(* 2^64 - 1, which the checker's integers cannot hold, so this             *)
(* specification runs the same steps with a word that ends at NarrowMax:   *)
(* the limits are the ones whose rounded value still fits the word.  The   *)
(* build is the one with overflow checks (the default of `cargo build` and *)
(* `cargo test`): an addition or multiplication whose result does not fit  *)
(* panics.                                                                 *)
(***************************************************************************)
NarrowMax == 4095
NarrowSpan == 2
NarrowWords == 5

\* The limits of the last NarrowWords words of the narrow range, a window
\* around each multiple of MODULUS, whose rounded value fits the word.
NarrowLimits ==
    {l \in (NarrowMax - NarrowWords * MODULUS)..NarrowMax :
        /\ rounded_limit(l) <= NarrowMax
        /\ \/ l % MODULUS <= NarrowSpan
           \/ l % MODULUS >= MODULUS - NarrowSpan}

CheckedInit ==
    /\ ctor = "to_limit"
    /\ arg \in NarrowLimits
    /\ SEGMENT_LEN \in 1..MaxSegmentLen
    /\ pc = "small_primes"
    /\ limit = ctor_limit(ctor, arg)
    /\ lim = rounded_limit(limit)
    /\ sieve = small_primes_buffer(lim)
    /\ iter = SieveIterator_new(sieve)
    /\ small_primes = <<>>
    /\ small_primes_iter = SieveIterator_new(<<>>)
    /\ segment = <<>>
    /\ segments = <<>>
    /\ next_indices = <<>>
    /\ low = 0
    /\ j = 0
    /\ primes = <<>>
    /\ counts = <<>>
    /\ cursor = NoCursor
    /\ yielded = <<>>
    /\ exhausted = FALSE
    /\ q = NoQuery

\* prime * prime of the prime the decoder `it` yields next from `words`
\* fits the word (nothing is multiplied when the decoder is exhausted).
square_fits(it, words) ==
    LET r == SieveIterator_next(it, words)
    IN  r.out.tag = "Some" => r.out.val * r.out.val <= NarrowMax

\* Every sum and product the next step of the constructor computes fits
\* the word: prime * prime in small_primes; low + SEGMENT_SIZE and
\* prime * prime in the while-let loop; *index += wheel.next_diff() in the
\* for loop; low += SEGMENT_SIZE at the end of the pass.
fits_word ==
    /\ pc = "small_primes" => square_fits(iter, sieve)
    /\ pc = "pull" =>
           /\ low + SEGMENT_SIZE(SEGMENT_LEN) <= NarrowMax
           /\ square_fits(small_primes_iter, small_primes)
    /\ (pc = "sieve" /\ j < Len(next_indices)) =>
           cross_off(segment, next_indices[j + 1].index, next_indices[j + 1].wheel,
                     segment_size).index <= NarrowMax
    /\ (pc = "sieve" /\ j >= Len(next_indices)) =>
           low + SEGMENT_SIZE(SEGMENT_LEN) <= NarrowMax

\* The step whose arithmetic does not fit: the overflow check panics.
WordOverflow ==
    /\ BuildEnabled
    /\ ~fits_word
    /\ pc' = "overflowed"
    /\ UNCHANGED <<ctor, arg, SEGMENT_LEN, build_vars, primes, counts, cursor,
                   yielded, exhausted, q>>

CheckedNext ==
    \/ fits_word /\ SmallPrimesStep
    \/ fits_word /\ PullPrime
    \/ fits_word /\ SievePrime
    \/ fits_word /\ StoreSegment
    \/ BuildCounts
    \/ WordOverflow

SpecChecked == CheckedInit /\ [][CheckedNext]_vars

(***************************************************************************)
(* C26.  The construction of a Sieve never faults for any limit whose      *)
(* rounded value fits the machine word: no newly tracked prime has         *)
(* p * p < low, no stored index is below segment_size when it is rebased,  *)
(* no set_off index falls outside the scratch or the bootstrap buffer,     *)
(* Wheel30::new never reaches its unreachable!() arm (the constructor      *)
(* goes to "panicked" on any of the four), no stored index is negative,    *)
(* and no other panic ends the constructor.                                *)
(***************************************************************************)
C26_ConstructionNeverFaults ==
    /\ pc # "panicked"
    /\ \A i \in 1..Len(next_indices) : next_indices[i].index >= 0
    /\ pc # "overflowed"

====
